---- MODULE Spec2Model ----
(***************************************************************************)
(* Model of the xhs_spider crawl engine: the progress manager               *)
(* (progress_manager.py), the job coordinator and the streaming comment    *)
(* walker (json_to_full_data.py), the sub-comment fetcher                  *)
(* (apis/xhs_pc_apis.py) and the credential pool (cookie_pool.py).         *)
(*                                                                         *)
(* Spec     : one coordinator process over a fixed input list, a remote    *)
(*            server that may fail requests, and process crashes followed  *)
(*            by re-runs over the same output directory.                   *)
(* SpecPool : the credential pool with a discrete clock.                   *)
(* SpecReport, SpecRace, SpecStrategy, SpecCap, SpecLock : the pool under  *)
(*            other callers, settings and thread interleavings.            *)
(* SpecFiles : the saves of progress.json and cookie_pool_config.json.     *)
(* SpecRing, SpecTree : the error lists and the reply-tree walk of a note. *)
(* SpecRetry : get_with_cookie_pool_retry over the pool.                   *)
(* SpecExpand : the retry loop of the sub-comment expansion.               *)
(* SpecUrl  : a note of the input file through URL synthesis and parsing.  *)
(***************************************************************************)
EXTENDS Integers, Sequences, FiniteSets, TLC

VARIABLES
    pc,             \* position of the coordinator process ("idle": no process)
    progress_data,  \* ProgressManager.progress_data (saved to progress.json by every mutation)
    fullFiles,      \* note ids whose note_<id>_full.json exists in the output directory
    sink,           \* note id -> lines of note_<id>_comments.jsonl (comment ids)
    co,             \* locals of process_json_to_full_data
    wk,             \* locals of save_comments_streaming
    rt,             \* locals of get_with_cookie_pool_retry
    sb,             \* locals of get_note_all_inner_comment_with_provider
    env,            \* environment budgets (runs started, faults injected)
    gh,             \* history variables used to state the properties
    accounts,       \* CookiePool.accounts: the CookieAccount records, in insertion order
    strategy,       \* CookiePool.strategy
    last_used_index,\* CookiePool.last_used_index
    config,         \* content of cookie_pool_config.json
    now,            \* the wall clock read by datetime.now(), in seconds
    held,           \* credentials handed out by get_available_account and not yet reported
    admin,          \* number of administrative pool calls and restarts so far
    gets,           \* number of get_available_account calls so far
    log,            \* the successful get_available_account calls of this pool object, in order
    ret,            \* result of the last get_available_account call
    th,             \* concurrent callers of the pool: the call each is in and its locals
    disk,           \* progress.json, progress.json.tmp and cookie_pool_config.json as files
    sv,             \* the process that saves them: its position in the save and its data
    hist,           \* every error and warning reported for a note since its record was reset
    tw,             \* the reply-tree walk of one page: server data, call stack, sink records
    call,           \* one get_with_cookie_pool_retry call over the pool: its locals and history
    xp,             \* one sub-comment expansion under a cookie provider: its locals and history
    lk,             \* CookiePool.lock and the threads inside get_available_account
    io              \* a (note_id, xsec_token) pair on its way through the input format

vars == <<pc, progress_data, fullFiles, sink, co, wk, rt, sb, env, gh,
          accounts, strategy, last_used_index, config, now, held, admin, gets, log, ret, th, disk, sv,
          hist, tw, call, xp, lk, io>>
walkVars == <<pc, progress_data, fullFiles, sink, co, wk, rt, sb, env, gh>>
poolVars == <<accounts, strategy, last_used_index, config, now, held, admin, gets, log, ret>>
fileVars == <<disk, sv>>
treeVars == <<hist, tw>>
callVars == <<call, xp, lk, io>>
auxVars == <<th, disk, sv, hist, tw, callVars>>

----------------------------------------------------------------------------
(* Bounds of the model *)

MaxEntries == 11    \* errors and warnings reported for one note in the ring specification
MaxResets == 1      \* times the note is processed again in the ring specification
ChainDepth == 12    \* length of the longest reply chain the server holds in the tree specification
MaxSubFaults == 5   \* failed sub-comment page requests in the tree specification
MaxInput == 2       \* length of the note lists given to get_pending_notes
MaxRuns == 3        \* coordinator runs (a crash or a normal end is followed by a re-run)
MaxFaults == 2      \* non-OK responses and empty pool answers over a behaviour
MaxGets == 3        \* get_available_account calls in the pool specification
MaxReports == 13    \* outcomes reported for one credential in the report specification
MaxCalls == 2       \* calls one concurrent caller makes in the race specification
MaxVersions == 2    \* saves started by one process in the file specification
MaxKills == 2       \* kills of the saving process in the file specification
MaxIOErrors == 1    \* file operations that raise in the file specification
WriteCalls == 2     \* write() calls json.dump needs for one document
MaxAdmin == 1       \* administrative pool calls and restarts in the pool specification
MaxDays == 1        \* midnights the clock passes in the pool specification
SmallLimit == 2     \* the daily_limit that update_all_settings sets

(* Program constants *)

max_wait_rounds_Four == 3 + 1

max_wait_rounds == 3
SUB_COMMENT_MAX_RETRIES == 5
ErrorsKept == 10
ProgressEvery == 50
DefaultDailyLimit == 100
DefaultMinInterval == 3
SoftCooldownThreshold == 3
HardDisableThreshold == 10
ErrorFilterThreshold == 5
SecondsPerDay == 86400

----------------------------------------------------------------------------
(* The input list, the credentials and the remote server's data *)

AllNotes == <<"n1", "n2">>
Notes == {"n1", "n2"}
Creds == {"A", "B"}

\* comment count shown on the note (processed_note['comment_count'])
expected_comment_count(n) == IF n = "n1" THEN 6 ELSE 1

\* One page of top-level comments: data.comments, data.has_more, data.cursor.
TopPage(n, cursor) ==
    IF n = "n1" THEN
        CASE cursor = ""   -> [comments |-> <<"t1", "t2">>, has_more |-> TRUE,
                               has_cursor |-> TRUE, cursor |-> "c1"]
          [] cursor = "c1" -> [comments |-> <<"t3">>, has_more |-> TRUE,
                               has_cursor |-> TRUE, cursor |-> "c2"]
          [] OTHER         -> [comments |-> <<"t4">>, has_more |-> FALSE,
                               has_cursor |-> TRUE, cursor |-> "c3"]
    ELSE [comments |-> <<"u1">>, has_more |-> FALSE, has_cursor |-> FALSE, cursor |-> ""]

\* comment['sub_comment_count'], comment['sub_comments'] (inline), comment['sub_comment_cursor']
sub_comment_count(c) == IF c = "t1" THEN 2 ELSE 0
inline_sub_comments(c) == <<>>
sub_comment_cursor(c) == ""

\* One page of sub-comments of a parent.
SubPage(c, cursor) ==
    IF cursor = "" THEN [comments |-> <<"s1">>, has_more |-> TRUE,
                         has_cursor |-> TRUE, cursor |-> "sc1"]
    ELSE [comments |-> <<"s2">>, has_more |-> FALSE, has_cursor |-> TRUE, cursor |-> "sc2"]

\* Cursors of the top-level pages of a note, in page order.
PageCursors(n) == IF n = "n1" THEN <<"", "c1", "c2">> ELSE <<"">>
\* Every comment id of a note (what an uninterrupted, fault-free walk writes).
AllIds(n) == IF n = "n1" THEN {"t1", "s1", "s2", "t2", "t3", "t4"} ELSE {"u1"}

Range(s) == {s[i] : i \in 1..Len(s)}
IsPrefix(s, t) == Len(s) <= Len(t) /\ SubSeq(t, 1, Len(s)) = s
Has(u, k) == k \in DOMAIN u

----------------------------------------------------------------------------
(* progress_manager.py *)

\* _create_new_progress: the data of a new progress file
NewProgress ==
    [total_notes |-> 0,
     notes_progress |-> <<>>,
     statistics |-> [completed |-> 0, failed |-> 0, processing |-> 0, pending |-> 0]]

\* The record mark_note_processing creates for a note without one.
NewRecord ==
    [status |-> "processing", error_message |-> "None",
     enabled |-> FALSE, total_expected |-> 0, total_fetched |-> 0, last_cursor |-> "",
     completed |-> FALSE, current_page |-> 0, errors |-> <<>>, warnings |-> <<>>]

\* The stub record inserted for a note whose full file exists and that has no record;
\* keys the stub lacks read as their .get() defaults.
StubRecord(comments_file_exists) ==
    [NewRecord EXCEPT !.status = "completed",
                      !.enabled = comments_file_exists,
                      !.completed = comments_file_exists]

\* dict assignment d[k] = v
Put(d, k, v) == [x \in (DOMAIN d) \cup {k} |-> IF x = k THEN v ELSE d[x]]

Dec(x) == IF x > 0 THEN x - 1 ELSE x

get_note_progress(pd, n) ==
    IF n \in DOMAIN pd.notes_progress THEN pd.notes_progress[n] ELSE <<>>

\* a mark_note_processing that also forgets the resume point of an existing record
mark_note_processing_ForgetCursor(pd, n) ==
    IF n \notin DOMAIN pd.notes_progress
    THEN [pd EXCEPT !.notes_progress = Put(@, n, NewRecord),
                    !.statistics.processing = @ + 1,
                    !.statistics.pending = Dec(@)]
    ELSE [pd EXCEPT !.notes_progress[n].status = "processing",
                    !.notes_progress[n].error_message = "None",
                    !.notes_progress[n].current_page = 0,
                    !.notes_progress[n].last_cursor = "",
                    !.notes_progress[n].total_fetched = 0,
                    !.notes_progress[n].errors = <<>>,
                    !.notes_progress[n].warnings = <<>>,
                    !.statistics.failed = Dec(@),
                    !.statistics.processing = @ + 1]

mark_note_processing(pd, n) ==
    IF n \notin DOMAIN pd.notes_progress
    THEN [pd EXCEPT !.notes_progress = Put(@, n, NewRecord),
                    !.statistics.processing = @ + 1,
                    !.statistics.pending = Dec(@)]
    ELSE [pd EXCEPT !.notes_progress[n].status = "processing",
                    !.notes_progress[n].error_message = "None",
                    !.notes_progress[n].current_page = 0,
                    !.notes_progress[n].errors = <<>>,
                    !.notes_progress[n].warnings = <<>>,
                    !.statistics.failed = Dec(@),
                    !.statistics.processing = @ + 1]

\* details = {'comments': {'enabled', 'total_fetched': comment_count, 'completed': True}, ...}
mark_note_completed(pd, n, comment_count) ==
    IF n \in DOMAIN pd.notes_progress
    THEN [pd EXCEPT !.notes_progress[n].status = "completed",
                    !.notes_progress[n].enabled = TRUE,
                    !.notes_progress[n].total_fetched = comment_count,
                    !.notes_progress[n].completed = TRUE,
                    !.statistics.processing = Dec(@),
                    !.statistics.completed = @ + 1]
    ELSE pd

\* a mark_note_failed that leaves the record as it is
mark_note_failed_KeepStatus(pd, n, error_message) == pd

mark_note_failed(pd, n, error_message) ==
    IF n \in DOMAIN pd.notes_progress
    THEN [pd EXCEPT !.notes_progress[n].status = "failed",
                    !.notes_progress[n].error_message = error_message,
                    !.statistics.processing = Dec(@),
                    !.statistics.failed = @ + 1]
    ELSE pd

\* a trim that keeps the first entries: lst[:10]
KeepLast_First(s) == IF Len(s) > ErrorsKept THEN SubSeq(s, 1, ErrorsKept) ELSE s

\* lst[-10:]
KeepLast(s) == IF Len(s) > ErrorsKept THEN SubSeq(s, Len(s) - ErrorsKept + 1, Len(s)) ELSE s

\* update_comments_progress(note_id, **u): u holds the keyword arguments that are not None.
update_comments_progress(pd, n, u) ==
    IF n \notin DOMAIN pd.notes_progress THEN pd
    ELSE
    LET r0 == pd.notes_progress[n]
        r1 == IF Has(u, "total_expected")
              THEN [r0 EXCEPT !.total_expected = u.total_expected] ELSE r0
        r2 == IF Has(u, "total_fetched")
              THEN [r1 EXCEPT !.total_fetched = u.total_fetched] ELSE r1
        r3 == IF Has(u, "last_cursor")
              THEN [r2 EXCEPT !.last_cursor = u.last_cursor] ELSE r2
        r4 == IF Has(u, "completed")
              THEN [r3 EXCEPT !.completed = u.completed,
                              !.current_page = IF u.completed THEN 0 ELSE @]
              ELSE r3
        r5 == IF Has(u, "current_page")
              THEN [r4 EXCEPT !.current_page = u.current_page] ELSE r4
        r6 == IF Has(u, "error")
              THEN [r5 EXCEPT !.errors = KeepLast(Append(@, u.error))] ELSE r5
        r7 == IF Has(u, "warning")
              THEN [r6 EXCEPT !.warnings = KeepLast(Append(@, u.warning))] ELSE r6
    IN [pd EXCEPT !.notes_progress[n] = [r7 EXCEPT !.enabled = TRUE]]

\* is_note_completed: the answer, and progress_data after the stub insertion
is_note_completed(pd, files, sinks, n) ==
    IF n \in DOMAIN pd.notes_progress
    THEN [result |-> pd.notes_progress[n].status = "completed", pd |-> pd]
    ELSE IF n \in files
         THEN [result |-> TRUE,
               pd |-> [pd EXCEPT !.notes_progress = Put(@, n, StubRecord(sinks[n] # <<>>)),
                                 !.statistics.completed = @ + 1]]
         ELSE [result |-> FALSE, pd |-> pd]

\* a get_pending_notes that leaves failed notes out of the pending list
get_pending_notes_SkipFailed(pd, files, sinks, all) ==
    [pending |-> SelectSeq(all, LAMBDA n : n \notin DOMAIN pd.notes_progress
                                          /\ n \notin files),
     pd |-> pd]

\* get_pending_notes: the pending list, and progress_data afterwards
get_pending_notes(pd, files, sinks, all) ==
    LET scan[i \in 0..Len(all)] ==
            IF i = 0
            THEN [pd |-> [pd EXCEPT !.total_notes = Len(all)],
                  pending |-> <<>>, completed_count |-> 0]
            ELSE LET prev == scan[i - 1]
                     c == is_note_completed(prev.pd, files, sinks, all[i])
                 IN IF c.result
                    THEN [pd |-> c.pd, pending |-> prev.pending,
                          completed_count |-> prev.completed_count + 1]
                    ELSE [pd |-> c.pd, pending |-> Append(prev.pending, all[i]),
                          completed_count |-> prev.completed_count]
        end == scan[Len(all)]
    IN [pending |-> end.pending,
        pd |-> [end.pd EXCEPT !.statistics.completed = end.completed_count,
                              !.statistics.pending = Len(end.pending)]]


----------------------------------------------------------------------------
(* json_to_full_data.py: save_comments_streaming *)

CO0 == [pending |-> <<>>, i |-> 0, note_id |-> "", successful |-> 0, failed |-> 0]
NoRes == [comments |-> <<>>, has_more |-> FALSE, has_cursor |-> FALSE, cursor |-> ""]
WK0 == [cursor |-> "", page |-> 0, total_comments |-> 0, resume_total |-> 0,
        res |-> NoRes, k |-> 0, account |-> "", last_progress_update |-> 0]
RT0 == [tried |-> {}, wait_rounds |-> 0]
SB0 == [cursor |-> "", retry_count |-> 0, inner |-> <<>>]

\* a resume that ignores the stored cursor and starts from the first page
ResumeCursor_FromStart(pd, n) == ""

\* the stored resume point: (last_cursor, total_fetched) when last_cursor is non-empty
ResumeCursor(pd, n) ==
    IF n \in DOMAIN pd.notes_progress /\ pd.notes_progress[n].last_cursor # ""
    THEN pd.notes_progress[n].last_cursor ELSE ""

ResumeTotal(pd, n) ==
    IF n \in DOMAIN pd.notes_progress /\ pd.notes_progress[n].last_cursor # ""
    THEN pd.notes_progress[n].total_fetched ELSE 0

\* a sink that is opened for writing whatever the resume point is
file_mode_AlwaysWrite(resume_total) == "w"

\* file_mode = 'a' if resume_total > 0 else 'w'
file_mode(resume_total) == IF resume_total > 0 THEN "a" ELSE "w"

\* top of the while loop: page += 1; update_comments_progress(current_page=page)
LoopTop(pd, n, w) ==
    [wk |-> [w EXCEPT !.page = @ + 1, !.res = NoRes, !.k = 0],
     pd |-> update_comments_progress(pd, n, [current_page |-> w.page + 1])]

\* save_comments_streaming up to its first page request
WalkStart(pd, n, lines) ==
    LET resume_cursor == ResumeCursor(pd, n)
        resume_total == ResumeTotal(pd, n)
        pd1 == IF expected_comment_count(n) > 0
               THEN update_comments_progress(pd, n,
                        [total_expected |-> expected_comment_count(n)])
               ELSE pd
        w == [WK0 EXCEPT !.cursor = resume_cursor,
                         !.page = resume_total \div 10,
                         !.total_comments = resume_total,
                         !.resume_total = resume_total]
        top == LoopTop(pd1, n, w)
    IN [wk |-> top.wk, pd |-> top.pd,
        lines |-> IF file_mode(resume_total) = "w" THEN <<>> ELSE lines]

\* a walk that keeps the cursor it sent instead of the one the page returned
NextCursor_Stale(cursor, res) == cursor

\* cursor of the next page, taken from the page just processed
NextCursor(cursor, res) == res.cursor

\* save_comment_callback applied to the comments of one sub-comment page, in order
SaveSubs(pd, n, w, comments) ==
    LET step[j \in 0..Len(comments)] ==
            IF j = 0 THEN [pd |-> pd, wk |-> w]
            ELSE LET p == step[j - 1]
                     total == p.wk.total_comments + 1
                 IN IF total - p.wk.last_progress_update >= ProgressEvery
                    THEN [pd |-> update_comments_progress(p.pd, n,
                                    [total_fetched |-> total, current_page |-> w.page]),
                          wk |-> [p.wk EXCEPT !.total_comments = total,
                                              !.last_progress_update = total]]
                    ELSE [pd |-> p.pd, wk |-> [p.wk EXCEPT !.total_comments = total]]
    IN step[Len(comments)]

\* "actual_sub_count < sub_count * 0.9"
SubShortfall(actual, expected) == 10 * actual < 9 * expected


----------------------------------------------------------------------------
(* History variables *)

GH0 ==
    [reqs |-> [n \in Notes |-> {}],          \* top-level cursors requested in this run
     first |-> [n \in Notes |-> "none"],     \* cursor of the first top-level request of this run
     start |-> [n \in Notes |-> [status |-> "absent", last_cursor |-> ""]],
                                             \* the note's record when this run started
     topFail |-> [n \in Notes |-> FALSE],    \* this run's walk stopped on a page no credential fetched
     emptyFirst |-> [n \in Notes |-> FALSE], \* this run's first page came back with data = {}
     walkDone |-> [n \in Notes |-> FALSE],   \* this run's walk reached the last page
     pagesDone |-> [n \in Notes |-> {}],     \* cursors of the pages whose records are all in the sink
     other |-> [n \in Notes |-> FALSE],      \* a sub-comment fault or a malformed page was seen
     expectTop |-> "", topOK |-> TRUE,       \* the cursor the server asked for next, and whether
     expectSub |-> "", subOK |-> TRUE]       \*   every request so far used it

StartSnapshot(pd) ==
    [n \in Notes |->
        IF n \in DOMAIN pd.notes_progress
        THEN [status |-> pd.notes_progress[n].status,
              last_cursor |-> pd.notes_progress[n].last_cursor]
        ELSE [status |-> "absent", last_cursor |-> ""]]

----------------------------------------------------------------------------
(* json_to_full_data.py: process_json_to_full_data, get_note_full_info,
   get_with_cookie_pool_retry; apis/xhs_pc_apis.py:
   get_note_all_inner_comment_with_provider *)

WalkInit ==
    /\ pc = "idle"
    /\ progress_data = NewProgress
    /\ fullFiles \in {{}, {"n2"}}       \* an output directory of a run that predates progress.json
    /\ sink = [n \in Notes |-> IF n \in fullFiles THEN <<"u1">> ELSE <<>>]
    /\ co = CO0 /\ wk = WK0 /\ rt = RT0 /\ sb = SB0
    /\ env = [runs |-> 0, faults |-> 0]
    /\ gh = GH0

\* ProgressManager(output_dir) and get_pending_notes
StartRun ==
    /\ UNCHANGED <<poolVars, auxVars>>
    /\ pc \in {"idle", "done"}
    /\ env.runs < MaxRuns
    /\ LET g == get_pending_notes(progress_data, fullFiles, sink, AllNotes)
       IN /\ progress_data' = g.pd
          /\ co' = [CO0 EXCEPT !.pending = g.pending, !.i = 1]
          /\ pc' = IF g.pending = <<>> THEN "done" ELSE "loop"
    /\ env' = [env EXCEPT !.runs = @ + 1]
    /\ gh' = [gh EXCEPT !.reqs = GH0.reqs, !.first = GH0.first,
                        !.start = StartSnapshot(progress_data),
                        !.topFail = GH0.topFail, !.emptyFirst = GH0.emptyFirst,
                        !.walkDone = GH0.walkDone]
    /\ wk' = WK0 /\ rt' = RT0 /\ sb' = SB0
    /\ UNCHANGED <<fullFiles, sink>>

\* for i, note_url in enumerate(pending_note_urls): mark_note_processing, then get_note_info
BeginNote ==
    /\ UNCHANGED <<poolVars, auxVars>>
    /\ pc = "loop"
    /\ co.i <= Len(co.pending)
    /\ LET n == co.pending[co.i]
       IN /\ progress_data' = mark_note_processing(progress_data, n)
          /\ co' = [co EXCEPT !.note_id = n]
    /\ pc' = "info"
    /\ rt' = RT0
    /\ UNCHANGED <<fullFiles, sink, wk, sb, env, gh>>

\* the loop is over: the summary is written
EndRun ==
    /\ UNCHANGED <<poolVars, auxVars>>
    /\ pc = "loop"
    /\ co.i > Len(co.pending)
    /\ pc' = "done"
    /\ UNCHANGED <<progress_data, fullFiles, sink, co, wk, rt, sb, env, gh>>

\* get_note_full_info returned failure: mark_note_failed, next note
NoteFailed(n) ==
    /\ progress_data' = mark_note_failed(progress_data, n, "info_failed")
    /\ co' = [co EXCEPT !.i = @ + 1, !.failed = @ + 1]
    /\ pc' = "loop"
    /\ UNCHANGED <<fullFiles, sink, wk, sb, gh>>

\* get_with_cookie_pool_retry(get_note_info): one credential answers the request
InfoOK ==
    /\ UNCHANGED <<poolVars, auxVars>>
    /\ pc = "info"
    /\ \E a \in Creds \ rt.tried :
         LET n == co.note_id
             ws == WalkStart(progress_data, n, sink[n])
         IN /\ rt' = RT0
            /\ progress_data' = ws.pd
            /\ wk' = ws.wk
            /\ sink' = [sink EXCEPT ![n] = ws.lines]
            /\ gh' = [gh EXCEPT !.expectTop = ResumeCursor(progress_data, n),
                                !.pagesDone[n] = IF ws.lines = <<>> THEN {} ELSE @]
    /\ pc' = "fetch"
    /\ UNCHANGED <<fullFiles, co, sb, env>>

\* get_with_cookie_pool_retry(get_note_info): the request fails under one credential
InfoFail ==
    /\ UNCHANGED <<poolVars, auxVars>>
    /\ pc = "info"
    /\ env.faults < MaxFaults
    /\ env' = [env EXCEPT !.faults = @ + 1]
    /\ \E a \in Creds \ rt.tried :
         /\ rt' = [rt EXCEPT !.tried = @ \cup {a}]
         /\ IF rt.tried \cup {a} = Creds
            THEN NoteFailed(co.note_id)
            ELSE UNCHANGED <<pc, progress_data, fullFiles, sink, co, wk, sb, gh>>

\* save_comments_streaming: the page request failed under every credential
TopFailure(n) ==
    /\ progress_data' = update_comments_progress(progress_data, n, [error |-> "page_failed"])
    /\ pc' = "walked"
    /\ UNCHANGED <<fullFiles, sink, co, wk, sb>>

\* get_with_cookie_pool_retry: get_available_account returns None
NoAccount ==
    /\ UNCHANGED <<poolVars, auxVars>>
    /\ pc \in {"info", "fetch"}
    /\ env.faults < MaxFaults
    /\ env' = [env EXCEPT !.faults = @ + 1]
    /\ IF rt.wait_rounds < max_wait_rounds
       THEN /\ rt' = [rt EXCEPT !.wait_rounds = @ + 1]
            /\ UNCHANGED <<pc, progress_data, fullFiles, sink, co, wk, sb, gh>>
       ELSE /\ rt' = rt
            /\ IF pc = "info"
               THEN NoteFailed(co.note_id)
               ELSE /\ TopFailure(co.note_id)
                    /\ gh' = [gh EXCEPT !.topFail[co.note_id] = TRUE]

\* history of one top-level page request issued with cursor c
Requested(g, n, c) ==
    [g EXCEPT !.reqs[n] = @ \cup {c},
              !.first[n] = IF @ = "none" THEN c ELSE @,
              !.topOK = @ /\ (c = g.expectTop)]

\* get_with_cookie_pool_retry(get_note_out_comment): the request fails under one credential
FetchFail ==
    /\ UNCHANGED <<poolVars, auxVars>>
    /\ pc = "fetch"
    /\ env.faults < MaxFaults
    /\ env' = [env EXCEPT !.faults = @ + 1]
    /\ \E a \in Creds \ rt.tried :
         /\ rt' = [rt EXCEPT !.tried = @ \cup {a}]
         /\ IF rt.tried \cup {a} = Creds
            THEN /\ TopFailure(co.note_id)
                 /\ gh' = [Requested(gh, co.note_id, wk.cursor)
                              EXCEPT !.topFail[co.note_id] = TRUE]
            ELSE /\ gh' = Requested(gh, co.note_id, wk.cursor)
                 /\ UNCHANGED <<pc, progress_data, fullFiles, sink, co, wk, sb>>

\* the request succeeds and the page carries comments
FetchOK ==
    /\ UNCHANGED <<poolVars, auxVars>>
    /\ pc = "fetch"
    /\ \E a \in Creds \ rt.tried :
         /\ rt' = [rt EXCEPT !.tried = @ \cup {a}]
         /\ wk' = [wk EXCEPT !.res = TopPage(co.note_id, wk.cursor), !.k = 1,
                             !.account = a, !.last_progress_update = 0]
    /\ pc' = "emit"
    /\ gh' = Requested(gh, co.note_id, wk.cursor)
    /\ UNCHANGED <<progress_data, fullFiles, sink, co, sb, env>>

\* the request succeeds with a body the walker stops on:
\*   "nodata"     : no 'data' in the response
\*   "empty"      : data = {} (no 'comments' in data)
\*   "nocomments" : data.comments = []
FetchOdd ==
    /\ UNCHANGED <<poolVars, auxVars>>
    /\ pc = "fetch"
    /\ env.faults < MaxFaults
    /\ env' = [env EXCEPT !.faults = @ + 1]
    /\ \E a \in Creds \ rt.tried, kind \in {"nodata", "empty", "nocomments"} :
         LET n == co.note_id
         IN /\ rt' = [rt EXCEPT !.tried = @ \cup {a}]
            /\ wk' = [wk EXCEPT !.account = a]
            /\ progress_data' =
                 CASE kind = "nodata" ->
                        update_comments_progress(progress_data, n, [warning |-> "bad_data"])
                   [] kind = "empty" ->
                        IF wk.page = 1
                        THEN update_comments_progress(progress_data, n,
                                                      [error |-> "token_expired"])
                        ELSE update_comments_progress(progress_data, n,
                                                      [warning |-> "no_comments_field"])
                   [] OTHER -> progress_data
            /\ gh' = [Requested(gh, n, wk.cursor)
                        EXCEPT !.other[n] = TRUE,
                               !.emptyFirst[n] = @ \/ (kind = "empty" /\ wk.cursor = ""
                                                       /\ expected_comment_count(n) > 0)]
    /\ pc' = "walked"
    /\ UNCHANGED <<fullFiles, sink, co, sb>>


\* position after comment k of the page: the next comment, or the end of the page
AfterComment(w) == IF w.k < Len(w.res.comments) THEN "emit" ELSE "endpage"

\* for idx, comment in enumerate(comments, 1): write the top-level comment, then expand it
Emit ==
    /\ UNCHANGED <<poolVars, auxVars>>
    /\ pc = "emit"
    /\ LET n == co.note_id
           c == wk.res.comments[wk.k]
           fetch == sub_comment_count(c) > 0
                    /\ Len(inline_sub_comments(c)) < sub_comment_count(c)
           w == [wk EXCEPT !.total_comments = @ + 1]
       IN /\ sink' = [sink EXCEPT ![n] = Append(@, c)]
          /\ IF fetch
             THEN /\ pc' = "sub"
                  /\ wk' = w
                  /\ sb' = [SB0 EXCEPT !.cursor = sub_comment_cursor(c),
                                       !.inner = <<>>]
                  /\ gh' = [gh EXCEPT !.expectSub = sub_comment_cursor(c)]
             ELSE /\ pc' = AfterComment(wk)
                  /\ wk' = [w EXCEPT !.k = @ + 1]
                  /\ sb' = sb
                  /\ gh' = gh
    /\ UNCHANGED <<progress_data, fullFiles, co, rt, env>>

\* back in the walker after get_note_all_inner_comment_with_provider returned:
\* the shortfall warning, then the next comment of the page
SubReturn(pd, n, c, actual) ==
    IF SubShortfall(actual, sub_comment_count(c))
    THEN update_comments_progress(pd, n, [warning |-> "sub_shortfall"])
    ELSE pd

\* one sub-comment page request answered with a page
SubOK ==
    /\ UNCHANGED <<poolVars, auxVars>>
    /\ pc = "sub"
    /\ LET n == co.note_id
           c == wk.res.comments[wk.k]
           res == SubPage(c, sb.cursor)
           saved == SaveSubs(progress_data, n, wk, res.comments)
           inner == sb.inner \o res.comments
           more == res.has_cursor /\ res.has_more
       IN /\ sink' = [sink EXCEPT ![n] = @ \o res.comments]
          /\ gh' = [gh EXCEPT !.subOK = @ /\ (sb.cursor = gh.expectSub),
                              !.expectSub = IF more THEN res.cursor ELSE @]
          /\ IF more
             THEN /\ sb' = [sb EXCEPT !.cursor = NextCursor(sb.cursor, res), !.inner = inner]
                  /\ wk' = saved.wk
                  /\ progress_data' = saved.pd
                  /\ pc' = "sub"
             ELSE /\ sb' = SB0
                  /\ wk' = [saved.wk EXCEPT !.k = @ + 1]
                  /\ progress_data' = SubReturn(saved.pd, n, c, Len(inner))
                  /\ pc' = AfterComment(wk)
    /\ UNCHANGED <<fullFiles, co, rt, env>>

\* one sub-comment page request that fails ("fail": success = false or an exception)
\* or is answered with code 300013 ("rate")
SubFault ==
    /\ UNCHANGED <<poolVars, auxVars>>
    /\ pc = "sub"
    /\ env.faults < MaxFaults
    /\ env' = [env EXCEPT !.faults = @ + 1]
    /\ \E kind \in {"fail", "rate"} :
         LET n == co.note_id
             c == wk.res.comments[wk.k]
         IN /\ gh' = [gh EXCEPT !.subOK = @ /\ (sb.cursor = gh.expectSub),
                                !.other[n] = TRUE]
            /\ IF sb.retry_count < SUB_COMMENT_MAX_RETRIES - 1
               THEN \* the next round of the retry loop: cursor and inner list are kept
                    /\ sb' = [sb EXCEPT !.retry_count = @ + 1]
                    /\ UNCHANGED <<pc, progress_data, wk>>
               ELSE IF kind = "rate"
                    THEN \* last round: sleep, then "continue" the while loop
                         UNCHANGED <<pc, progress_data, wk, sb>>
                    ELSE \* last round failed: the inline sub-comments are kept
                         /\ sb' = SB0
                         /\ wk' = [wk EXCEPT !.k = @ + 1]
                         /\ progress_data' = SubReturn(progress_data, n, c,
                                                       Len(inline_sub_comments(c)))
                         /\ pc' = AfterComment(wk)
    /\ UNCHANGED <<fullFiles, sink, co, rt>>

\* after the page's comments: has_more / cursor, the progress update, the next loop round
EndPage ==
    /\ UNCHANGED <<poolVars, auxVars>>
    /\ pc = "endpage"
    /\ LET n == co.note_id
           res == wk.res
       IN IF res.has_more /\ res.has_cursor
          THEN LET next_cursor == NextCursor(wk.cursor, res)
                   pd1 == update_comments_progress(progress_data, n,
                              [total_fetched |-> wk.total_comments,
                               last_cursor |-> next_cursor,
                               current_page |-> wk.page])
                   top == LoopTop(pd1, n, [wk EXCEPT !.cursor = next_cursor])
               IN /\ progress_data' = top.pd
                  /\ wk' = top.wk
                  /\ rt' = RT0
                  /\ pc' = "fetch"
                  /\ gh' = [gh EXCEPT !.pagesDone[n] = @ \cup {wk.cursor},
                                      !.expectTop = res.cursor]
          ELSE /\ progress_data' = update_comments_progress(progress_data, n,
                                      [total_fetched |-> wk.total_comments,
                                       last_cursor |-> wk.cursor,
                                       completed |-> TRUE])
               /\ wk' = wk
               /\ rt' = rt
               /\ pc' = "walked"
               /\ gh' = [gh EXCEPT !.pagesDone[n] = @ \cup {wk.cursor},
                                   !.walkDone[n] = TRUE]
    /\ UNCHANGED <<fullFiles, sink, co, sb, env>>

\* the write of a top-level comment to the sink raises and the exception leaves
\* save_comments_streaming: get_note_full_info catches it, sets comment_count to 0
\* and goes on to write the full file
WalkRaise ==
    /\ UNCHANGED <<poolVars, auxVars>>
    /\ pc = "emit"
    /\ env.faults < MaxFaults
    /\ env' = [env EXCEPT !.faults = @ + 1]
    /\ wk' = [wk EXCEPT !.total_comments = 0]
    /\ gh' = [gh EXCEPT !.other[co.note_id] = TRUE]
    /\ pc' = "walked"
    /\ UNCHANGED <<progress_data, fullFiles, sink, co, rt, sb>>

\* save_comments_streaming returned total_comments: get_note_full_info writes
\* note_<id>_full.json and returns success
SaveFull ==
    /\ UNCHANGED <<poolVars, auxVars>>
    /\ pc = "walked"
    /\ fullFiles' = fullFiles \cup {co.note_id}
    /\ pc' = "saved"
    /\ UNCHANGED <<progress_data, sink, co, wk, rt, sb, env, gh>>

\* back in the coordinator: successful_notes.append, mark_note_completed
FinishNote ==
    /\ UNCHANGED <<poolVars, auxVars>>
    /\ pc = "saved"
    /\ LET n == co.note_id
           comment_count == wk.total_comments
       IN progress_data' = mark_note_completed(progress_data, n, comment_count)
    /\ co' = [co EXCEPT !.i = @ + 1, !.successful = @ + 1]
    /\ pc' = "loop"
    /\ UNCHANGED <<fullFiles, sink, wk, rt, sb, env, gh>>

\* the process is killed: its locals are lost, the files stay
Crash ==
    /\ UNCHANGED <<poolVars, auxVars>>
    /\ pc \notin {"idle", "done"}
    /\ pc' = "idle"
    /\ co' = CO0 /\ wk' = WK0 /\ rt' = RT0 /\ sb' = SB0
    /\ UNCHANGED <<progress_data, fullFiles, sink, env, gh>>

WalkNext ==
    \/ StartRun \/ BeginNote \/ EndRun
    \/ InfoOK \/ InfoFail \/ NoAccount
    \/ FetchOK \/ FetchFail \/ FetchOdd
    \/ Emit \/ SubOK \/ SubFault \/ EndPage
    \/ WalkRaise \/ SaveFull \/ FinishNote \/ Crash

Threads == {"t1", "t2"}
TH0 == [t \in Threads |-> [pc |-> "idle", op |-> "none", id |-> "", field |-> 0,
                           tmp |-> 0, errors |-> 0, successes |-> 0]]
\* a file: whether it exists, the version of the data dumped into it, and how many
\* of the WriteCalls writes of that dump reached it
Files == {"progress.json", "progress.json.tmp", "cookie_pool_config.json"}
Absent == [exists |-> FALSE, v |-> 0, written |-> 0]
Complete(v) == [exists |-> TRUE, v |-> v, written |-> WriteCalls]
Targets == {"progress", "config"}
SV0 == [pc |-> "idle", target |-> "progress", attempt |-> 0,
        mem |-> [t \in Targets |-> 0], pre |-> [t \in Targets |-> 0],
        saves |-> 0, kills |-> 0, ioerrors |-> 0]
DISK0 == [f \in Files |-> IF f = "progress.json.tmp" THEN Absent ELSE Complete(0)]

HIST0 == [errors |-> <<>>, warnings |-> <<>>]
TW0 == [shape |-> "none", k |-> 1, stack |-> <<>>, sink |-> <<>>, faults |-> 0,
        capped |-> FALSE, failed |-> FALSE]
\* no get_with_cookie_pool_retry call, no expansion, the lock free, no pair in flight
CALL0 == [pc |-> "none", tried |-> {}, total_accounts |-> 0, wait_rounds |-> 0,
          account |-> "None", requests |-> <<>>, daily0 |-> <<>>, calls |-> 0,
          result |-> "none"]
NoRequest == [cookie |-> "None", failed |-> FALSE]
XP0 == [pc |-> "none", k |-> 0, account |-> "None", mode |-> "normal", flag |-> TRUE,
        retry_count |-> 0,
        cookie |-> "None", page |-> 0, last |-> NoRequest, fail0 |-> <<>>]
LK0 == [owner |-> "None",
        pc |-> [t \in Threads |-> "idle"], avail |-> [t \in Threads |-> <<>>],
        got |-> [t \in Threads |-> "None"], at |-> [t \in Threads |-> -1],
        calls |-> [t \in Threads |-> 0]]
IO0 == [stage |-> "none", note_id |-> <<>>, xsec_token |-> <<>>, note_url |-> <<>>,
        id_out |-> <<>>, info_token |-> <<>>, comments_token |-> <<>>]
CallIdle == call = CALL0 /\ xp = XP0 /\ lk = LK0 /\ io = IO0
AuxIdle == th = TH0 /\ disk = DISK0 /\ sv = SV0 /\ hist = HIST0 /\ tw = TW0 /\ CallIdle

PoolIdle ==
    /\ AuxIdle
    /\ accounts = <<>> /\ strategy = "round_robin" /\ last_used_index = -1
    /\ config = <<>> /\ now = 0 /\ held = {} /\ admin = 0 /\ gets = 0 /\ log = <<>> /\ ret = "None"

Init == WalkInit /\ PoolIdle
Next == WalkNext
Spec == Init /\ [][Next]_vars


----------------------------------------------------------------------------
(* Properties of the progress manager, the coordinator and the walker (Spec) *)

Records == progress_data.notes_progress
HasRecord(n) == n \in DOMAIN Records
CountStatus(st) == Cardinality({n \in DOMAIN Records : Records[n].status = st})

\* C1: after every mutation, statistics[s] is the number of records with status s,
\* for s in completed, failed, processing.
C1_StatisticsMatchRecords ==
    \A st \in {"completed", "failed", "processing"} :
        progress_data.statistics[st] = CountStatus(st)

\* C2: comments.total_fetched of a note never decreases.
C2_TotalFetchedMonotonic ==
    [][\A n \in Notes :
          (HasRecord(n) /\ n \in DOMAIN progress_data'.notes_progress)
          => progress_data'.notes_progress[n].total_fetched >= Records[n].total_fetched]_vars

\* the cursors of the pages before the page with cursor c
PagesBefore(n, c) ==
    {PageCursors(n)[i] : i \in {j \in 1..Len(PageCursors(n)) :
                                  \E m \in (j + 1)..Len(PageCursors(n)) : PageCursors(n)[m] = c}}

\* C3: a non-empty last_cursor is the cursor of the next page not yet read: every page
\* before it is fully in the sink, and its own page is not.
C3_LastCursorIsNextUnread ==
    \A n \in Notes :
        (HasRecord(n) /\ Records[n].last_cursor # "")
        => /\ Records[n].last_cursor \notin gh.pagesDone[n]
           /\ PagesBefore(n, Records[n].last_cursor) \subseteq gh.pagesDone[n]

\* C4: once the pipeline has been re-run to completion after crashes and top-level page
\* failures, the sink holds exactly the comment ids of an uninterrupted run.
C4_ResumeYieldsFullSet ==
    \A n \in Notes :
        (HasRecord(n) /\ Records[n].status = "completed" /\ ~gh.other[n])
        => Range(sink[n]) = AllIds(n)

\* C5: a run that starts after a crash with last_cursor = c2 selects the note, sends its
\* first top-level request with c2, never requests "" or c1, and when its walk reaches
\* the last page the sink holds every record of the three pages.
C5_ResumeFromStoredCursor ==
    (pc # "idle" /\ gh.start["n1"] = [status |-> "processing", last_cursor |-> "c2"])
    => /\ "n1" \in Range(co.pending)
       /\ gh.first["n1"] \in {"none", "c2"}
       /\ gh.reqs["n1"] \cap {"", "c1"} = {}
       /\ gh.walkDone["n1"] => AllIds("n1") \subseteq Range(sink["n1"])

C5_Witness ==
    /\ pc = "done"
    /\ gh.start["n1"] = [status |-> "processing", last_cursor |-> "c2"]
    /\ gh.first["n1"] = "c2"
    /\ gh.walkDone["n1"]

\* C6: every page request, top level or sub-comments, uses the cursor the last processed
\* page of the same walk returned, also after a retry or a credential switch.
C6_RequestsFollowServerCursor == gh.topOK /\ gh.subOK

C6_Witness ==
    /\ pc = "emit" /\ wk.cursor = "c1"
    /\ Cardinality(rt.tried) = 2      \* the page came after a failed attempt under another credential
    /\ gh.other["n1"]                 \* and a sub-comment page of this note was retried

\* C7: a walk that stopped on a page no credential could fetch never leaves the note completed.
C7_ExhaustionMarksFailed ==
    \A n \in Notes : (gh.topFail[n] /\ HasRecord(n)) => Records[n].status # "completed"

\* C8: expected_comment_count > 0 and a first page with data = {}: the note ends failed
\* with a token-expiration message, an empty sink and an empty last_cursor.
C8_EmptyFirstPageMarksFailed ==
    \A n \in Notes :
        (gh.emptyFirst[n] /\ pc \in {"loop", "done"})
        => /\ Records[n].status = "failed"
           /\ Records[n].error_message = "token_expired"
           /\ sink[n] = <<>>
           /\ Records[n].last_cursor = ""

----------------------------------------------------------------------------
(* cookie_pool.py *)

None == -1      \* a timestamp that is not set

Min(a, b) == IF a < b THEN a ELSE b
Date(t) == t \div SecondsPerDay

\* CookieAccount.__init__ at time t
NewAccount(id, t) ==
    [cookie_id |-> id, is_active |-> TRUE, last_use_time |-> None,
     use_count |-> 0, error_count |-> 0, daily_use_count |-> 0,
     daily_limit |-> DefaultDailyLimit, cooldown_until |-> None,
     min_interval |-> DefaultMinInterval,
     success_count |-> 0, fail_count |-> 0, total_notes |-> 0,
     last_reset_date |-> Date(t)]

\* a _check_daily_reset that never restarts the day counter
check_daily_reset_Never(a, t) == a

\* CookieAccount._check_daily_reset
check_daily_reset(a, t) ==
    IF Date(t) > a.last_reset_date
    THEN [a EXCEPT !.daily_use_count = 0, !.last_reset_date = Date(t)]
    ELSE a

\* a can_use that filters at the soft-cooldown threshold instead of its own
can_use_FilterAtSoftThreshold(a, t) ==
    IF ~a.is_active THEN [ok |-> FALSE, acct |-> a]
    ELSE IF a.cooldown_until # None /\ t < a.cooldown_until THEN [ok |-> FALSE, acct |-> a]
    ELSE IF a.last_use_time # None /\ t - a.last_use_time < a.min_interval
         THEN [ok |-> FALSE, acct |-> a]
    ELSE LET b == check_daily_reset(a, t)
         IN IF b.daily_use_count >= b.daily_limit THEN [ok |-> FALSE, acct |-> b]
            ELSE IF b.error_count >= SoftCooldownThreshold THEN [ok |-> FALSE, acct |-> b]
            ELSE [ok |-> TRUE, acct |-> b]

\* CookieAccount.can_use: the answer, and the account after the lazy daily reset
can_use(a, t) ==
    IF ~a.is_active THEN [ok |-> FALSE, acct |-> a]
    ELSE IF a.cooldown_until # None /\ t < a.cooldown_until THEN [ok |-> FALSE, acct |-> a]
    ELSE IF a.last_use_time # None /\ t - a.last_use_time < a.min_interval
         THEN [ok |-> FALSE, acct |-> a]
    ELSE LET b == check_daily_reset(a, t)
         IN IF b.daily_use_count >= b.daily_limit THEN [ok |-> FALSE, acct |-> b]
            ELSE IF b.error_count >= ErrorFilterThreshold THEN [ok |-> FALSE, acct |-> b]
            ELSE [ok |-> TRUE, acct |-> b]

\* a use that forgets to stamp the time of use
use_NoStamp(a, t) ==
    [a EXCEPT !.use_count = @ + 1, !.daily_use_count = @ + 1]

\* CookieAccount.use
use(a, t) ==
    [a EXCEPT !.last_use_time = t, !.use_count = @ + 1, !.daily_use_count = @ + 1]

\* CookieAccount.mark_success(notes_count = 1)
mark_success(a) ==
    [a EXCEPT !.success_count = @ + 1, !.total_notes = @ + 1,
              !.error_count = IF @ > 0 THEN @ - 1 ELSE 0]

\* a mark_error whose cooldown grows without the 60-minute cap
mark_error_NoCap(a, t) ==
    LET e == a.error_count + 1
        b == [a EXCEPT !.fail_count = @ + 1, !.error_count = e]
        c == IF e >= SoftCooldownThreshold
             THEN [b EXCEPT !.cooldown_until = t + (e * 5) * 60]
             ELSE b
    IN IF e >= HardDisableThreshold THEN [c EXCEPT !.is_active = FALSE] ELSE c

\* CookieAccount.mark_error
mark_error(a, t) ==
    LET e == a.error_count + 1
        b == [a EXCEPT !.fail_count = @ + 1, !.error_count = e]
        c == IF e >= SoftCooldownThreshold
             THEN [b EXCEPT !.cooldown_until = t + Min(e * 5, 60) * 60]
             ELSE b
    IN IF e >= HardDisableThreshold THEN [c EXCEPT !.is_active = FALSE] ELSE c

\* the entry save_config writes for one account
Persisted(a) ==
    [cookie_id |-> a.cookie_id, is_active |-> a.is_active, use_count |-> a.use_count,
     success_count |-> a.success_count, fail_count |-> a.fail_count,
     error_count |-> a.error_count, total_notes |-> a.total_notes,
     daily_limit |-> a.daily_limit, min_interval |-> a.min_interval]

\* CookiePool.save_config: the file content
save_config(accts, strat) ==
    [strategy |-> strat, accounts |-> [i \in 1..Len(accts) |-> Persisted(accts[i])]]

\* a load_config that does not restore is_active
Loaded_ActiveDefault(e, t) ==
    [NewAccount(e.cookie_id, t) EXCEPT
        !.use_count = e.use_count,
        !.success_count = e.success_count, !.fail_count = e.fail_count,
        !.error_count = e.error_count, !.total_notes = e.total_notes,
        !.daily_limit = e.daily_limit, !.min_interval = e.min_interval]

\* CookiePool.load_config: the account built from one entry of the file at time t
Loaded(e, t) ==
    [NewAccount(e.cookie_id, t) EXCEPT
        !.is_active = e.is_active, !.use_count = e.use_count,
        !.success_count = e.success_count, !.fail_count = e.fail_count,
        !.error_count = e.error_count, !.total_notes = e.total_notes,
        !.daily_limit = e.daily_limit, !.min_interval = e.min_interval]

Index(accts, id) == CHOOSE i \in 1..Len(accts) : accts[i].cookie_id = id
Ids(accts) == {accts[i].cookie_id : i \in 1..Len(accts)}

\* the accounts after every can_use of the scan, and the positions that passed it
Scanned(accts, t) == [i \in 1..Len(accts) |-> can_use(accts[i], t)]
\* a scan that lets every credential through
Available_Unfiltered(accts, t) == [i \in 1..Len(accts) |-> i]

Available(accts, t) ==
    LET sc == Scanned(accts, t)
        F[i \in 0..Len(accts)] ==
            IF i = 0 THEN <<>>
            ELSE IF sc[i].ok THEN Append(F[i - 1], i) ELSE F[i - 1]
    IN F[Len(accts)]

\* min(available_accounts, key=daily_use_count): the first minimal element
FirstMin(accts, avail) ==
    LET best[i \in 1..Len(avail)] ==
            IF i = 1 THEN avail[1]
            ELSE IF accts[avail[i]].daily_use_count < accts[best[i - 1]].daily_use_count
                 THEN avail[i] ELSE best[i - 1]
    IN best[Len(avail)]


Strategies == {"round_robin", "random", "least_used"}
Replace(accts, i, a) == [accts EXCEPT ![i] = a]
AfterScan(accts, t) == [i \in 1..Len(accts) |-> Scanned(accts, t)[i].acct]

\* an add_account that overwrites the record of a token already present
add_account_Overwrite(id) ==
    /\ accounts' = IF id \in Ids(accounts)
                   THEN Replace(accounts, Index(accounts, id), NewAccount(id, now))
                   ELSE Append(accounts, NewAccount(id, now))
    /\ config' = save_config(accounts', strategy)
    /\ UNCHANGED <<strategy, last_used_index, admin, gets, now, held, log, ret>>
    /\ UNCHANGED <<walkVars, auxVars>>

\* CookiePool.add_account
add_account(id) ==
    /\ IF id \in Ids(accounts)
       THEN UNCHANGED <<accounts, config>>
       ELSE /\ accounts' = Append(accounts, NewAccount(id, now))
            /\ config' = save_config(accounts', strategy)
    /\ UNCHANGED <<strategy, last_used_index, admin, gets, now, held, log, ret>>
    /\ UNCHANGED <<walkVars, auxVars>>

\* get_available_account after the scan: the choice among the credentials that
\* passed can_use, and selected.use()
Select(avail, scanned) ==
    IF avail = <<>>
    THEN /\ accounts' = scanned
         /\ ret' = "None"
         /\ UNCHANGED <<last_used_index, held, log>>
    ELSE \E k \in 1..Len(avail) :
          /\ CASE strategy = "random" -> TRUE
               [] strategy = "least_used" -> avail[k] = FirstMin(scanned, avail)
               [] OTHER -> k = ((last_used_index + 1) % Len(avail)) + 1
          /\ last_used_index' =
                IF strategy \in {"random", "least_used"} THEN last_used_index
                ELSE (last_used_index + 1) % Len(avail)
          /\ accounts' = Replace(scanned, avail[k], use(scanned[avail[k]], now))
          /\ ret' = scanned[avail[k]].cookie_id
          /\ held' = held \cup {ret'}
          /\ log' = Append(log, [ret |-> ret', strategy |-> strategy,
                                 available |-> [j \in 1..Len(avail) |->
                                                  scanned[avail[j]].cookie_id]])

\* the body of get_available_account, run in one piece under CookiePool.lock
Acquire == Select(Available(accounts, now), AfterScan(accounts, now))

\* CookiePool.get_available_account
get_available_account ==
    /\ held = {}
    /\ gets < MaxGets
    /\ gets' = gets + 1
    /\ Acquire
    /\ UNCHANGED <<strategy, config, admin, now>>
    /\ UNCHANGED <<walkVars, auxVars>>

\* CookiePool.mark_account_success
mark_account_success(id) ==
    /\ IF id \in Ids(accounts)
       THEN /\ accounts' = Replace(accounts, Index(accounts, id),
                                   mark_success(accounts[Index(accounts, id)]))
            /\ config' = save_config(accounts', strategy)
       ELSE UNCHANGED <<accounts, config>>
    /\ held' = held \ {id}
    /\ UNCHANGED <<strategy, last_used_index, admin, gets, now, log, ret>>
    /\ UNCHANGED <<walkVars, auxVars>>

\* CookiePool.mark_account_error
mark_account_error(id) ==
    /\ IF id \in Ids(accounts)
       THEN /\ accounts' = Replace(accounts, Index(accounts, id),
                                   mark_error(accounts[Index(accounts, id)], now))
            /\ config' = save_config(accounts', strategy)
       ELSE UNCHANGED <<accounts, config>>
    /\ held' = held \ {id}
    /\ UNCHANGED <<strategy, last_used_index, admin, gets, now, log, ret>>
    /\ UNCHANGED <<walkVars, auxVars>>

\* CookiePool.remove_account
remove_account(id) ==
    /\ admin < MaxAdmin
    /\ IF id \in Ids(accounts)
       THEN /\ accounts' = SelectSeq(accounts, LAMBDA a : a.cookie_id # id)
            /\ config' = save_config(accounts', strategy)
       ELSE UNCHANGED <<accounts, config>>
    /\ admin' = admin + 1
    /\ UNCHANGED <<strategy, last_used_index, gets, now, held, log, ret>>
    /\ UNCHANGED <<walkVars, auxVars>>

\* get_with_cookie_pool_retry: a credential already tried in this call is
\* dropped without a request and without a report
SkipTried ==
    /\ held # {}
    /\ held' = {}
    /\ UNCHANGED <<accounts, strategy, last_used_index, config, now, admin, gets, log, ret>>
    /\ UNCHANGED <<walkVars, auxVars>>

\* CookiePool.reset_account
reset_account(id) ==
    /\ admin < MaxAdmin
    /\ id \in Ids(accounts)
    /\ LET i == Index(accounts, id)
       IN accounts' = Replace(accounts, i,
              [accounts[i] EXCEPT !.is_active = TRUE, !.error_count = 0,
                                  !.cooldown_until = None, !.daily_use_count = 0])
    /\ config' = save_config(accounts', strategy)
    /\ admin' = admin + 1
    /\ UNCHANGED <<strategy, last_used_index, gets, now, held, log, ret>>
    /\ UNCHANGED <<walkVars, auxVars>>

\* CookiePool.set_strategy
set_strategy(st) ==
    /\ admin < MaxAdmin
    /\ st \in Strategies
    /\ strategy' = st
    /\ config' = save_config(accounts, st)
    /\ admin' = admin + 1
    /\ UNCHANGED <<accounts, last_used_index, gets, now, held, log, ret>>
    /\ UNCHANGED <<walkVars, auxVars>>

\* CookiePool.update_all_settings(daily_limit=SmallLimit)
update_all_settings ==
    /\ admin < MaxAdmin
    /\ accounts # <<>>
    /\ accounts' = [i \in 1..Len(accounts) |-> [accounts[i] EXCEPT !.daily_limit = SmallLimit]]
    /\ config' = save_config(accounts', strategy)
    /\ admin' = admin + 1
    /\ UNCHANGED <<strategy, last_used_index, gets, now, held, log, ret>>
    /\ UNCHANGED <<walkVars, auxVars>>

\* a new process: CookiePool.__init__ and load_config from the file on disk
Restart ==
    /\ admin < MaxAdmin
    /\ config # <<>>
    /\ accounts' = [i \in 1..Len(config.accounts) |-> Loaded(config.accounts[i], now)]
    /\ strategy' = config.strategy
    /\ last_used_index' = -1
    /\ held' = {}
    /\ ret' = "None"
    /\ log' = <<>>
    /\ admin' = admin + 1
    /\ UNCHANGED <<config, gets, now>>
    /\ UNCHANGED <<walkVars, auxVars>>

\* the instants at which some can_use answer can change
Thresholds ==
    {accounts[i].last_use_time + accounts[i].min_interval :
        i \in {j \in 1..Len(accounts) : accounts[j].last_use_time # None}}
    \cup {accounts[i].cooldown_until : i \in 1..Len(accounts)}
    \cup {(Date(now) + 1) * SecondsPerDay}

\* time passes, up to the next instant in Thresholds
Tick ==
    /\ \E t \in Thresholds :
        /\ t > now
        /\ \A u \in Thresholds : u > now => t <= u
        /\ Date(t) <= MaxDays
        /\ now' = t
    /\ UNCHANGED <<admin, gets, accounts, strategy, last_used_index, config, held, log, ret>>
    /\ UNCHANGED <<walkVars, auxVars>>

PoolNext ==
    \/ \E id \in Creds : add_account(id)
    \/ get_available_account
    \/ \E id \in held : mark_account_success(id)
    \/ \E id \in held : mark_account_error(id)
    \/ SkipTried
    \/ \E id \in Creds : remove_account(id)
    \/ \E id \in Creds : reset_account(id)
    \/ \E st \in Strategies : set_strategy(st)
    \/ update_all_settings
    \/ Restart
    \/ Tick

\* the config file a run that ended after n failed uses of credential A left behind
ConfigAfterFailures(n) ==
    [strategy |-> "round_robin",
     accounts |-> <<[Persisted(NewAccount("A", 0)) EXCEPT
                        !.use_count = n, !.fail_count = n, !.error_count = n]>>]
InitialConfigs == {ConfigAfterFailures(0), ConfigAfterFailures(ErrorFilterThreshold - 1)}

\* CookiePool(config_file) on one of InitialConfigs; no crawl is running
PoolInit ==
    /\ pc = "idle" /\ progress_data = NewProgress /\ fullFiles = {}
    /\ sink = [n \in Notes |-> <<>>]
    /\ co = CO0 /\ wk = WK0 /\ rt = RT0 /\ sb = SB0
    /\ env = [runs |-> 0, faults |-> 0] /\ gh = GH0
    /\ AuxIdle
    /\ config \in InitialConfigs
    /\ accounts = [i \in 1..Len(config.accounts) |-> Loaded(config.accounts[i], 0)]
    /\ strategy = config.strategy /\ last_used_index = -1
    /\ now = 0 /\ held = {} /\ admin = 0 /\ gets = 0 /\ log = <<>> /\ ret = "None"

SpecPool == PoolInit /\ [][PoolNext]_vars


----------------------------------------------------------------------------
\* the credential is active, not in cooldown, under its daily cap and past
\* its min-interval at time t
IsActiveCooledUnderCapRested(a, t) ==
    /\ a.is_active
    /\ ~(a.cooldown_until # None /\ t < a.cooldown_until)
    /\ a.daily_use_count < a.daily_limit
    /\ ~(a.last_use_time # None /\ t - a.last_use_time < a.min_interval)

\* C10 as stated: whenever at least one credential is active, not in cooldown,
\* under its daily cap and past its min-interval, a call of
\* get_available_account returns a credential and not None.
C10_AcquireReturnsWhenOneEligible ==
    [][(get_available_account
        /\ \E i \in 1..Len(accounts) : IsActiveCooledUnderCapRested(accounts[i], now))
       => ret' # "None"]_vars

\* C10 amended: whenever at least one credential is active, not in cooldown,
\* under its daily cap, past its min-interval and below the error-count
\* threshold of 5, a call of get_available_account returns a credential and
\* not None.
C10_AcquireReturnsWhenOneEligibleBelowErrorThreshold ==
    [][(get_available_account
        /\ \E i \in 1..Len(accounts) :
              /\ IsActiveCooledUnderCapRested(accounts[i], now)
              /\ accounts[i].error_count < ErrorFilterThreshold)
       => ret' # "None"]_vars

\* a credential was handed out at this instant while another credential of
\* the pool was not eligible
C10_Witness ==
    /\ ret # "None" /\ ret \in held /\ ret \in Ids(accounts)
    /\ accounts[Index(accounts, ret)].last_use_time = now
    /\ accounts[Index(accounts, ret)].error_count > 0
    /\ \E i \in 1..Len(accounts) :
          /\ accounts[i].cookie_id # ret
          /\ ~IsActiveCooledUnderCapRested(accounts[i], now)

\* the calls log[i .. i+n-1] were made under round_robin with n credentials passing the filter
RoundRobinWindow(i, n) ==
    /\ n >= 1 /\ i >= 1 /\ i + n - 1 <= Len(log)
    /\ \A j \in i..(i + n - 1) : log[j].strategy = "round_robin" /\ Len(log[j].available) = n

\* C11: under round_robin with N eligible credentials, in any window of N consecutive
\* successful get_available_account calls of a pool each credential is returned at most
\* once, whatever the calls before the window were.
C11_RoundRobinWindowDistinct ==
    \A n \in 1..Cardinality(Creds) : \A i \in 1..Len(log) :
        RoundRobinWindow(i, n)
        => \A j, k \in i..(i + n - 1) : j # k => log[j].ret # log[k].ret

\* uses of the credential counted for the day of instant t
DailyUsedToday(a, t) == IF Date(t) > a.last_reset_date THEN 0 ELSE a.daily_use_count

\* active, not in cooldown, min-interval elapsed, under the daily cap, under the error threshold
PassesEveryFilter(a, t) ==
    /\ a.is_active
    /\ ~(a.cooldown_until # None /\ t < a.cooldown_until)
    /\ ~(a.last_use_time # None /\ t - a.last_use_time < a.min_interval)
    /\ DailyUsedToday(a, t) < a.daily_limit
    /\ a.error_count < ErrorFilterThreshold

\* the credential is looked at far enough for its day counter to be restarted
DueDailyReset(a, t) ==
    /\ a.is_active
    /\ ~(a.cooldown_until # None /\ t < a.cooldown_until)
    /\ ~(a.last_use_time # None /\ t - a.last_use_time < a.min_interval)
    /\ Date(t) > a.last_reset_date

AfterDailyReset(a, t) ==
    IF DueDailyReset(a, t)
    THEN [a EXCEPT !.daily_use_count = 0, !.last_reset_date = Date(t)]
    ELSE a

\* C12 as stated: get_available_account returns only a credential that passes every
\* filter; it adds one to use_count and daily_use_count of that credential and stamps
\* its last_use_time, leaves every other credential unchanged, and returns None only
\* when no credential passes the filter, changing no credential then.
C12_AcquireFrame ==
    [][get_available_account =>
        /\ Len(accounts') = Len(accounts)
        /\ IF ret' = "None"
           THEN /\ \A i \in 1..Len(accounts) : ~PassesEveryFilter(accounts[i], now)
                /\ accounts' = accounts
           ELSE /\ ret' \in Ids(accounts)
                /\ PassesEveryFilter(accounts[Index(accounts, ret')], now)
                /\ \A i \in 1..Len(accounts) :
                      accounts'[i] =
                         IF accounts[i].cookie_id = ret'
                         THEN [accounts[i] EXCEPT !.use_count = @ + 1,
                                                  !.daily_use_count = @ + 1,
                                                  !.last_use_time = now]
                         ELSE accounts[i]
      ]_vars

\* C12 amended: as C12, except that the call restarts the day counter
\* (daily_use_count = 0, last_reset_date = today) of every credential that is active,
\* out of cooldown and past its min-interval and whose last reset date is before today,
\* whether or not that credential is returned; the returned credential's
\* daily_use_count is one more than its count for today.
C12_AcquireFrameUpToDailyReset ==
    [][get_available_account =>
        /\ Len(accounts') = Len(accounts)
        /\ IF ret' = "None"
           THEN /\ \A i \in 1..Len(accounts) : ~PassesEveryFilter(accounts[i], now)
                /\ \A i \in 1..Len(accounts) :
                      accounts'[i] = AfterDailyReset(accounts[i], now)
           ELSE /\ ret' \in Ids(accounts)
                /\ PassesEveryFilter(accounts[Index(accounts, ret')], now)
                /\ \A i \in 1..Len(accounts) :
                      accounts'[i] =
                         IF accounts[i].cookie_id = ret'
                         THEN [AfterDailyReset(accounts[i], now) EXCEPT
                                  !.use_count = @ + 1,
                                  !.daily_use_count = @ + 1,
                                  !.last_use_time = now]
                         ELSE AfterDailyReset(accounts[i], now)
      ]_vars

\* a credential was handed out on the day after its last reset, from a pool holding
\* another credential
C12_Witness ==
    /\ ret # "None" /\ ret \in held /\ ret \in Ids(accounts) /\ Len(accounts) = 2
    /\ Date(now) = 1
    /\ accounts[Index(accounts, ret)].last_use_time = now
    /\ accounts[Index(accounts, ret)].daily_use_count = 1
    /\ accounts[Index(accounts, ret)].use_count > 1
    /\ \A i \in 1..Len(accounts) : accounts[i].last_reset_date = 1

----------------------------------------------------------------------------
(* The pool under callers that report outcomes for any credential id, as the
   public mark_account_success / mark_account_error allow *)

ReportsLeft ==
    \A i \in 1..Len(accounts) :
        accounts[i].success_count + accounts[i].fail_count < MaxReports

ReportNext ==
    \/ \E id \in Creds : ReportsLeft /\ mark_account_error(id)
    \/ \E id \in Creds : ReportsLeft /\ mark_account_success(id)
    \/ \E id \in Creds : reset_account(id)
    \/ Restart
    \/ Tick

\* CookiePool(config_file) on the config file of a pool holding the fresh credential A
ReportInit ==
    /\ PoolInit
    /\ config = ConfigAfterFailures(0)

SpecReport == ReportInit /\ [][ReportNext]_vars

\* C13: mark_account_error on a credential with n consecutive errors adds one to
\* fail_count and error_count; it sets cooldown_until = now + min((n+1) * 5, 60) minutes
\* exactly when n+1 >= 3 and leaves the cooldown unchanged otherwise; it sets
\* is_active = false exactly when n+1 >= 10 and leaves it unchanged otherwise.
C13_MarkErrorEffect ==
    [][\A id \in Creds :
        (mark_account_error(id) /\ id \in Ids(accounts)) =>
            LET a == accounts[Index(accounts, id)]
                b == accounts'[Index(accounts, id)]
                n == a.error_count
            IN /\ b.fail_count = a.fail_count + 1
               /\ b.error_count = n + 1
               /\ b.cooldown_until =
                     IF n + 1 >= 3
                     THEN now + 60 * (IF (n + 1) * 5 < 60 THEN (n + 1) * 5 ELSE 60)
                     ELSE a.cooldown_until
               /\ b.is_active = IF n + 1 >= 10 THEN FALSE ELSE a.is_active
               /\ (n = 0 /\ a.cooldown_until = None)
                     => (b.error_count = 1 /\ b.cooldown_until = None)
      ]_vars

\* the thirteenth consecutive error was just reported: the cooldown is the 60-minute
\* cap and the credential is disabled
C13_Witness ==
    \E i \in 1..Len(accounts) :
        /\ accounts[i].error_count = 13
        /\ accounts[i].cooldown_until = now + 3600
        /\ ~accounts[i].is_active

\* C14: in every reachable pool state, also after loading the persisted config file,
\* a credential with error_count >= 10 has is_active = false.
C14_HardDisabledAtTen ==
    \A i \in 1..Len(accounts) :
        accounts[i].error_count >= HardDisableThreshold => ~accounts[i].is_active

\* a credential with ten or more errors as load_config rebuilt it (no cooldown, never
\* used by this pool object)
C14_Witness ==
    \E i \in 1..Len(accounts) :
        /\ accounts[i].error_count >= HardDisableThreshold
        /\ accounts[i].cooldown_until = None
        /\ ~accounts[i].is_active

\* C15: the pool never holds two credentials with the same token; add_account of a
\* token already present leaves the pool (every record and its counters) and the
\* config file unchanged, and add_account of a new token inserts one record.
C15_AddAccountKeepsTokensUnique ==
    [][/\ \A i, j \in 1..Len(accounts') :
             accounts'[i].cookie_id = accounts'[j].cookie_id => i = j
       /\ \A id \in Creds :
             add_account(id) =>
                IF id \in Ids(accounts)
                THEN accounts' = accounts /\ config' = config
                ELSE accounts' = Append(accounts, NewAccount(id, now))
      ]_vars

\* a credential in use (counters above zero) shares the pool with a second credential
\* and an add_account of its token has nothing left to change
C15_Witness ==
    /\ Len(accounts) = 2
    /\ \E i \in 1..2 : accounts[i].use_count > 0 /\ accounts[i].fail_count > 0
    /\ ENABLED add_account(accounts[1].cookie_id)

----------------------------------------------------------------------------
(* Two threads calling mark_account_error / mark_account_success on the same pool.
   Neither method takes CookiePool.lock, so the statements of the two calls
   interleave; "x += 1" and "x = max(0, x - 1)" are a read followed by a write. *)

\* the counters mark_error and mark_success update, in statement order
CounterFields(op) ==
    IF op = "mark_account_error" THEN <<"fail_count", "error_count">>
    ELSE <<"success_count", "total_notes", "error_count">>

\* the value a counter statement stores, computed from the value it read
Updated(op, f, v) ==
    IF op = "mark_account_success" /\ f = "error_count"
    THEN (IF v - 1 > 0 THEN v - 1 ELSE 0)
    ELSE v + 1

\* thread t enters mark_account_error(id) or mark_account_success(id)
RaceCall(t, op, id) ==
    /\ th[t].pc = "idle"
    /\ th[t].errors + th[t].successes < MaxCalls
    /\ id \in Ids(accounts)
    /\ th' = [th EXCEPT ![t] = [@ EXCEPT !.pc = "read", !.op = op, !.id = id, !.field = 1]]
    /\ UNCHANGED <<walkVars, poolVars, fileVars, treeVars, callVars>>

\* the read half of a counter statement
ReadField(t) ==
    /\ th[t].pc = "read"
    /\ LET f == CounterFields(th[t].op)[th[t].field]
       IN th' = [th EXCEPT ![t] = [@ EXCEPT !.pc = "write",
                                            !.tmp = accounts[Index(accounts, th[t].id)][f]]]
    /\ UNCHANGED <<walkVars, poolVars, fileVars, treeVars, callVars>>

\* the write half of a counter statement
WriteField(t) ==
    /\ th[t].pc = "write"
    /\ LET fs == CounterFields(th[t].op)
           f == fs[th[t].field]
           i == Index(accounts, th[t].id)
       IN /\ accounts' = [accounts EXCEPT ![i] = [@ EXCEPT ![f] = Updated(th[t].op, f, th[t].tmp)]]
          /\ th' = [th EXCEPT ![t] =
                      IF th[t].field < Len(fs)
                      THEN [@ EXCEPT !.pc = "read", !.field = @ + 1]
                      ELSE [@ EXCEPT !.pc = IF th[t].op = "mark_account_error"
                                            THEN "cooldown" ELSE "save"]]
    /\ UNCHANGED <<strategy, last_used_index, config, now, held, admin, gets, log, ret>>
    /\ UNCHANGED <<walkVars, fileVars, treeVars, callVars>>

\* mark_error: if self.error_count >= 3: set the cooldown
SetCooldown(t) ==
    /\ th[t].pc = "cooldown"
    /\ LET i == Index(accounts, th[t].id)
           e == accounts[i].error_count
       IN accounts' =
             IF e >= SoftCooldownThreshold
             THEN [accounts EXCEPT ![i] = [@ EXCEPT !.cooldown_until = now + Min(e * 5, 60) * 60]]
             ELSE accounts
    /\ th' = [th EXCEPT ![t] = [@ EXCEPT !.pc = "disable"]]
    /\ UNCHANGED <<strategy, last_used_index, config, now, held, admin, gets, log, ret>>
    /\ UNCHANGED <<walkVars, fileVars, treeVars, callVars>>

\* mark_error: if self.error_count >= 10: disable the account
SetInactive(t) ==
    /\ th[t].pc = "disable"
    /\ LET i == Index(accounts, th[t].id)
       IN accounts' =
             IF accounts[i].error_count >= HardDisableThreshold
             THEN [accounts EXCEPT ![i] = [@ EXCEPT !.is_active = FALSE]]
             ELSE accounts
    /\ th' = [th EXCEPT ![t] = [@ EXCEPT !.pc = "save"]]
    /\ UNCHANGED <<strategy, last_used_index, config, now, held, admin, gets, log, ret>>
    /\ UNCHANGED <<walkVars, fileVars, treeVars, callVars>>

\* self.save_config(), and the call returns
SaveAndReturn(t) ==
    /\ th[t].pc = "save"
    /\ config' = save_config(accounts, strategy)
    /\ th' = [th EXCEPT ![t] =
                [@ EXCEPT !.pc = "idle",
                          !.errors = IF th[t].op = "mark_account_error" THEN @ + 1 ELSE @,
                          !.successes = IF th[t].op = "mark_account_success" THEN @ + 1 ELSE @]]
    /\ UNCHANGED <<accounts, strategy, last_used_index, now, held, admin, gets, log, ret>>
    /\ UNCHANGED <<walkVars, fileVars, treeVars, callVars>>

RaceNext ==
    \/ \E t \in Threads : \E op \in {"mark_account_error", "mark_account_success"} :
          RaceCall(t, op, "A")
    \/ \E t \in Threads : ReadField(t)
    \/ \E t \in Threads : WriteField(t)
    \/ \E t \in Threads : SetCooldown(t)
    \/ \E t \in Threads : SetInactive(t)
    \/ \E t \in Threads : SaveAndReturn(t)

SpecRace == ReportInit /\ [][RaceNext]_vars

\* error_count after ne mark_account_error and ns mark_account_success calls made one
\* after the other, in every order, from error_count = e
RECURSIVE SequentialErrorCounts(_, _, _)
SequentialErrorCounts(e, ne, ns) ==
    IF ne = 0 /\ ns = 0 THEN {e}
    ELSE (IF ne > 0 THEN SequentialErrorCounts(e + 1, ne - 1, ns) ELSE {})
         \cup (IF ns > 0 THEN SequentialErrorCounts(IF e > 0 THEN e - 1 ELSE 0, ne, ns - 1)
               ELSE {})

\* C16: the pool's mutations are serialized under its lock, so once concurrent callers
\* have returned, the counters are those of some sequential order of their calls: no
\* update of fail_count, success_count or error_count is lost.
C16_CountersAsIfSerialized ==
    (\A t \in Threads : th[t].pc = "idle") =>
        LET a == accounts[Index(accounts, "A")]
            ne == th["t1"].errors + th["t2"].errors
            ns == th["t1"].successes + th["t2"].successes
        IN /\ a.fail_count = ne
           /\ a.success_count = ns
           /\ a.error_count \in SequentialErrorCounts(0, ne, ns)

\* C17: after every pool operation that changes a persisted field of a credential or
\* the strategy, the config file equals the in-memory pool state; this includes
\* get_available_account, which increments use_count.
C17_ConfigFollowsMemory ==
    [][save_config(accounts', strategy') # save_config(accounts, strategy)
       => config' = save_config(accounts', strategy')]_vars

----------------------------------------------------------------------------
(* ProgressManager.save_progress and CookiePool.save_config, one file operation at
   a time, in a process that can be killed between any two of them *)

\* the file a save ends up in
DestFile(target) == IF target = "progress" THEN "progress.json" ELSE "cookie_pool_config.json"

\* a save_progress that dumps straight into progress.json
WriteFile_InPlace(target) == DestFile(target)

\* the file a save opens with mode 'w' and dumps into
WriteFile(target) ==
    IF target = "progress" THEN "progress.json.tmp" ELSE "cookie_pool_config.json"

max_retries == 3

\* a mutation changed the data in memory and calls save_progress / save_config
BeginSave(target) ==
    /\ sv.pc = "idle"
    /\ sv.saves < MaxVersions
    /\ sv' = [sv EXCEPT !.pc = "open", !.target = target, !.attempt = 1,
                        !.mem[target] = @ + 1,
                        !.pre[target] = disk[DestFile(target)].v,
                        !.saves = @ + 1]
    /\ UNCHANGED <<disk, th, walkVars, poolVars, treeVars, callVars>>

\* open(file, 'w'): the file exists and is empty
OpenForWrite ==
    /\ sv.pc = "open"
    /\ disk' = [disk EXCEPT ![WriteFile(sv.target)] =
                   [exists |-> TRUE, v |-> sv.mem[sv.target], written |-> 0]]
    /\ sv' = [sv EXCEPT !.pc = "dump"]
    /\ UNCHANGED <<th, walkVars, poolVars, treeVars, callVars>>

\* json.dump: one more write reaches the file; after the last one the file is closed
\* (save_progress: flushed and fsynced)
WriteChunk ==
    /\ sv.pc = "dump"
    /\ disk' = [disk EXCEPT ![WriteFile(sv.target)].written = @ + 1]
    /\ sv' = [sv EXCEPT !.pc =
                IF disk[WriteFile(sv.target)].written + 1 < WriteCalls THEN "dump"
                ELSE IF sv.target = "progress" THEN "replace" ELSE "idle"]
    /\ UNCHANGED <<th, walkVars, poolVars, treeVars, callVars>>

\* os.replace(temp_file, progress_file)
ReplaceFile ==
    /\ sv.pc = "replace"
    /\ disk' = IF WriteFile(sv.target) = DestFile(sv.target) THEN disk
               ELSE [disk EXCEPT ![DestFile(sv.target)] = disk[WriteFile(sv.target)],
                                 ![WriteFile(sv.target)] = Absent]
    /\ sv' = [sv EXCEPT !.pc = "verify"]
    /\ UNCHANGED <<th, walkVars, poolVars, treeVars, callVars>>

\* the file exists and its size is above zero: return True; otherwise the next attempt
Verify ==
    /\ sv.pc = "verify"
    /\ sv' = [sv EXCEPT !.pc =
                IF disk[DestFile(sv.target)].exists /\ disk[DestFile(sv.target)].written > 0
                THEN "idle"
                ELSE IF sv.attempt < max_retries THEN "open" ELSE "idle",
                        !.attempt = IF disk[DestFile(sv.target)].exists
                                       /\ disk[DestFile(sv.target)].written > 0
                                    THEN @ ELSE @ + 1]
    /\ UNCHANGED <<disk, th, walkVars, poolVars, treeVars, callVars>>

\* open, a write or os.replace raises: save_progress goes to its except block,
\* save_config logs the error and returns
Raise ==
    /\ sv.pc \in {"open", "dump", "replace"}
    /\ sv.ioerrors < MaxIOErrors
    /\ sv' = [sv EXCEPT !.pc = IF sv.target = "progress" THEN "cleanup" ELSE "idle",
                        !.ioerrors = @ + 1]
    /\ UNCHANGED <<disk, th, walkVars, poolVars, treeVars, callVars>>

\* except block of save_progress: remove the temp file, then the next attempt
Cleanup ==
    /\ sv.pc = "cleanup"
    /\ disk' = IF WriteFile(sv.target) = DestFile(sv.target) THEN disk
               ELSE [disk EXCEPT ![WriteFile(sv.target)] = Absent]
    /\ sv' = [sv EXCEPT !.pc = IF sv.attempt < max_retries THEN "open" ELSE "idle",
                        !.attempt = @ + 1]
    /\ UNCHANGED <<th, walkVars, poolVars, treeVars, callVars>>

\* SIGKILL: the process is gone, the files stay as they are
Kill ==
    /\ sv.pc # "dead"
    /\ sv.kills < MaxKills
    /\ sv' = [sv EXCEPT !.pc = "dead", !.kills = @ + 1]
    /\ UNCHANGED <<disk, th, walkVars, poolVars, treeVars, callVars>>

\* what json.load gives a new process: the data of a complete file, or nothing
LoadedVersion(f) == IF f.exists /\ f.written = WriteCalls THEN f.v ELSE 0

\* a new process: _load_or_create_progress and load_config
StartProcess ==
    /\ sv.pc = "dead"
    /\ sv' = [sv EXCEPT !.pc = "idle", !.attempt = 0, !.saves = 0,
                        !.mem = [t \in Targets |-> LoadedVersion(disk[DestFile(t)])],
                        !.pre = [t \in Targets |-> disk[DestFile(t)].v]]
    /\ UNCHANGED <<disk, th, walkVars, poolVars, treeVars, callVars>>

FileNext ==
    \/ \E target \in Targets : BeginSave(target)
    \/ OpenForWrite \/ WriteChunk \/ ReplaceFile \/ Verify
    \/ Raise \/ Cleanup
    \/ Kill \/ StartProcess

SpecFiles == Init /\ [][FileNext]_vars

\* the file holds one complete document, the one before the save in progress or the
\* one this save writes
Intact(target) ==
    /\ disk[DestFile(target)].exists
    /\ disk[DestFile(target)].written = WriteCalls
    /\ disk[DestFile(target)].v \in {sv.pre[target], sv.mem[target]}

\* C18: whenever the process is killed in save_config, the config file on disk is the
\* complete previous version or the complete new version, never empty or partial.
C18_ConfigFileAtomic == sv.pc = "dead" => Intact("config")

\* C19: at every step of save_progress (also between retries and in the cleanup of
\* the temp file), and so whenever the process is killed there, progress.json on disk
\* is the complete pre-write or the complete post-write version, never truncated or
\* partial.
C19_ProgressFileAtomic == Intact("progress")

\* the process was killed during a retry of save_progress, with a partly written
\* temp file left behind
C19_Witness ==
    /\ sv.pc = "dead" /\ sv.target = "progress" /\ sv.attempt > 1
    /\ disk["progress.json.tmp"].exists
    /\ disk["progress.json.tmp"].written < WriteCalls
    /\ sv.mem["progress"] # disk["progress.json"].v

----------------------------------------------------------------------------
(* The pool of a process whose config file was saved with the random strategy *)

StrategyConfigs == {[c EXCEPT !.strategy = "random"] : c \in InitialConfigs}

StrategyInit ==
    /\ pc = "idle" /\ progress_data = NewProgress /\ fullFiles = {}
    /\ sink = [n \in Notes |-> <<>>]
    /\ co = CO0 /\ wk = WK0 /\ rt = RT0 /\ sb = SB0
    /\ env = [runs |-> 0, faults |-> 0] /\ gh = GH0
    /\ AuxIdle
    /\ config \in StrategyConfigs
    /\ accounts = [i \in 1..Len(config.accounts) |-> Loaded(config.accounts[i], 0)]
    /\ strategy = config.strategy /\ last_used_index = -1
    /\ now = 0 /\ held = {} /\ admin = 0 /\ gets = 0 /\ log = <<>> /\ ret = "None"

SpecStrategy == StrategyInit /\ [][PoolNext]_vars

\* C20: a get_available_account that returns a credential under least_used returns one
\* whose daily_use_count is minimal among the credentials that pass the filter, and
\* no credential tied with it on daily_use_count was last used before it (only
\* credentials that have been used are compared).
C20_LeastUsedLongestIdle ==
    [][(strategy = "least_used" /\ gets' = gets + 1 /\ held' # held) =>
         LET avail == Available(accounts, now)
             scanned == AfterScan(accounts, now)
             chosen == CHOOSE k \in 1..Len(avail) : scanned[avail[k]].cookie_id = ret'
         IN \A j \in 1..Len(avail) :
               /\ scanned[avail[chosen]].daily_use_count <= scanned[avail[j]].daily_use_count
               /\ (/\ scanned[avail[chosen]].daily_use_count = scanned[avail[j]].daily_use_count
                   /\ scanned[avail[j]].last_use_time # None)
                     => scanned[avail[chosen]].last_use_time <= scanned[avail[j]].last_use_time
      ]_vars

----------------------------------------------------------------------------
(* ProgressManager queries *)

\* C21: asked between two runs, is_note_completed answers true for every note whose
\* record has status completed and for every note whose note_<id>_full.json exists,
\* whatever the status
\* of an existing record is; a note without a record whose file exists gets a
\* completed stub record.
C21_CompletedByRecordOrFile ==
    pc \in {"idle", "done"} => \A n \in Notes :
        LET c == is_note_completed(progress_data, fullFiles, sink, n)
        IN /\ (HasRecord(n) /\ Records[n].status = "completed") => c.result
           /\ n \in fullFiles => c.result
           /\ (n \in fullFiles /\ ~HasRecord(n)) =>
                 /\ n \in DOMAIN c.pd.notes_progress
                 /\ c.pd.notes_progress[n].status = "completed"

\* note lists the caller can pass, repetitions included
InputLists == UNION {[1..k -> Notes] : k \in 0..MaxInput}

\* the note has a record whose status is not completed, or it has no record
NotCompletedStatus(n) == HasRecord(n) => Records[n].status # "completed"

\* C22 as stated: get_pending_notes returns, in input order and with nothing dropped
\* or repeated, exactly the input notes whose status is failed, processing or absent.
C22_PendingAreNotCompletedStatus ==
    pc \in {"idle", "done"} =>
        \A all \in InputLists :
            get_pending_notes(progress_data, fullFiles, sink, all).pending
                = SelectSeq(all, NotCompletedStatus)

\* the note is not completed: its record says another status, or it has no record and
\* no note_<id>_full.json
NotCompleted(n) ==
    IF HasRecord(n) THEN Records[n].status # "completed" ELSE n \notin fullFiles

\* C22 amended: get_pending_notes returns, in input order and with nothing dropped or
\* repeated, exactly the input notes that are failed, processing, or absent without a
\* full file; an absent note whose full file exists counts as completed.
C22_PendingAreNotCompleted ==
    pc \in {"idle", "done"} =>
        \A all \in InputLists :
            get_pending_notes(progress_data, fullFiles, sink, all).pending
                = SelectSeq(all, NotCompleted)

\* a run has just started whose pending list holds the failed n1 and not the completed n2
C22_Witness ==
    /\ pc = "loop" /\ co.i = 1 /\ co.pending = <<"n1">>
    /\ gh.start["n1"].status = "failed"
    /\ gh.start["n2"].status = "completed"

----------------------------------------------------------------------------
(* The errors and warnings lists of one note under repeated reports *)

Messages == {"m1", "m2"}

ReportsMade == Len(hist.errors) + Len(hist.warnings)

\* update_comments_progress(note_id, error=m)
ReportError(m) ==
    /\ ReportsMade < MaxEntries
    /\ progress_data' = update_comments_progress(progress_data, "n1", [error |-> m])
    /\ hist' = [hist EXCEPT !.errors = Append(@, m)]
    /\ UNCHANGED <<pc, fullFiles, sink, co, wk, rt, sb, env, gh, poolVars, th, disk, sv, tw, callVars>>

\* update_comments_progress(note_id, warning=m)
ReportWarning(m) ==
    /\ ReportsMade < MaxEntries
    /\ progress_data' = update_comments_progress(progress_data, "n1", [warning |-> m])
    /\ hist' = [hist EXCEPT !.warnings = Append(@, m)]
    /\ UNCHANGED <<pc, fullFiles, sink, co, wk, rt, sb, env, gh, poolVars, th, disk, sv, tw, callVars>>

\* the note is processed again: mark_note_processing empties both lists
Reprocess ==
    /\ ReportsMade > 0
    /\ progress_data.statistics.processing <= MaxResets
    /\ progress_data' = mark_note_processing(progress_data, "n1")
    /\ hist' = HIST0
    /\ UNCHANGED <<pc, fullFiles, sink, co, wk, rt, sb, env, gh, poolVars, th, disk, sv, tw, callVars>>

RingNext ==
    \/ \E m \in Messages : ReportError(m)
    \/ \E m \in Messages : ReportWarning(m)
    \/ Reprocess

\* the note has just been marked processing in a new progress file
RingInit ==
    /\ pc = "idle" /\ fullFiles = {} /\ sink = [n \in Notes |-> <<>>]
    /\ progress_data = mark_note_processing(NewProgress, "n1")
    /\ co = CO0 /\ wk = WK0 /\ rt = RT0 /\ sb = SB0
    /\ env = [runs |-> 0, faults |-> 0] /\ gh = GH0
    /\ PoolIdle

SpecRing == RingInit /\ [][RingNext]_vars

\* the last ErrorsKept entries of a list, in order
MostRecent(s) ==
    [i \in 1..Min(Len(s), ErrorsKept) |-> s[Len(s) - Min(Len(s), ErrorsKept) + i]]

\* C23: the errors and the warnings list of a note each hold at most 10 entries, and
\* after any sequence of update_comments_progress calls they hold the most recently
\* reported entries, in report order.
C23_RingBuffers ==
    /\ Len(Records["n1"].errors) <= ErrorsKept
    /\ Len(Records["n1"].warnings) <= ErrorsKept
    /\ Records["n1"].errors = MostRecent(hist.errors)
    /\ Records["n1"].warnings = MostRecent(hist.warnings)

\* more errors were reported than the list keeps, and the oldest one differs from the
\* oldest one kept
C23_Witness ==
    /\ Len(hist.errors) > ErrorsKept
    /\ hist.errors[1] # Records["n1"].errors[1]

----------------------------------------------------------------------------
(* process_json_to_full_data: the loop over the pending notes *)

Settled(n) == HasRecord(n) /\ Records[n].status \in {"completed", "failed"}

\* C24: a failure or an exception while one note is processed does not end the batch:
\* the pending notes are taken in list order, every note the loop has left is
\* completed or failed and counted once as successful or failed, and the loop ends
\* only after the last pending note, with successful + failed = number of pending notes.
C24_FailureIsolation ==
    pc # "idle" =>
        /\ co.i \in 1..(Len(co.pending) + 1)
        /\ co.successful + co.failed = co.i - 1
        /\ \A j \in 1..(co.i - 1) : Settled(co.pending[j])
        /\ pc \notin {"loop", "done"} => co.note_id = co.pending[co.i]
        /\ pc = "done" => /\ co.i = Len(co.pending) + 1
                          /\ co.successful + co.failed = Len(co.pending)

\* a batch has ended in which the first note failed and the second one was still
\* processed and completed
C24_Witness ==
    /\ pc = "done" /\ co.pending = <<"n1", "n2">>
    /\ co.failed = 1 /\ co.successful = 1
    /\ Records["n1"].status = "failed"
    /\ Records["n2"].status = "completed"

----------------------------------------------------------------------------
(* save_comments_streaming: the count it returns *)

\* C28: when the comment walk of a note has reached the last page, the total that
\* save_comments_streaming returns, which is also stored as total_fetched, is the
\* number of records in the note's sink, also when the walk was resumed from a stored
\* cursor.
C28_ReportedCountIsSinkCount ==
    (pc = "walked" /\ gh.walkDone[co.note_id]) =>
        /\ wk.total_comments = Len(sink[co.note_id])
        /\ Records[co.note_id].total_fetched = Len(sink[co.note_id])

----------------------------------------------------------------------------
(* One page of top-level comments and their reply trees: save_comments_streaming's
   for loop and get_note_all_inner_comment_with_provider, one request or one call
   at a time. Comments are numbered; 0 stands for the empty _parent_id. *)

\* reply trees the server can hold:
\*   family  : T(1) with replies 3, 4, 5, reply 3 with reply 6; B(2) with reply 7
\*   inline  : 1 with its only reply 2 returned inline, 2 with reply 3
\*   partial : 1 with replies 2, 3 of which 2 is returned inline
\*   chain   : 1 <- 2 <- ... <- ChainDepth, every comment the only reply of the one before
Shapes == {"family", "inline", "partial", "chain"}

\* data.comments of the page
Tops(sh) == IF sh = "family" THEN <<1, 2>> ELSE <<1>>

\* the replies of a comment on the server, in the order its pages return them
Kids(sh, c) ==
    CASE sh = "family"  -> (CASE c = 1 -> <<3, 4, 5>> [] c = 3 -> <<6>> [] c = 2 -> <<7>>
                              [] OTHER -> <<>>)
      [] sh = "inline"  -> (CASE c = 1 -> <<2>> [] c = 2 -> <<3>> [] OTHER -> <<>>)
      [] sh = "partial" -> (CASE c = 1 -> <<2, 3>> [] OTHER -> <<>>)
      [] OTHER          -> IF c < ChainDepth THEN <<c + 1>> ELSE <<>>

\* comment['sub_comments'] as the server returns it with the comment
Inline(sh, c) ==
    IF sh \in {"inline", "partial"} /\ c = 1 THEN <<2>> ELSE <<>>

\* comment['sub_comment_count']
Hint(sh, c) == Len(Kids(sh, c))

Comments(sh) ==
    CASE sh = "family" -> 1..7 [] sh = "inline" -> 1..3 [] sh = "partial" -> 1..3
      [] OTHER -> 1..ChainDepth

SubPageSize == 2

\* one page of replies of c requested with cursor off
ReplyPage(sh, c, off) ==
    [comments |-> SubSeq(Kids(sh, c), off + 1, Min(off + SubPageSize, Len(Kids(sh, c)))),
     has_more |-> off + SubPageSize < Len(Kids(sh, c)),
     cursor |-> off + SubPageSize]

max_level == 10

\* an expansion that is never cut
BeyondMaxLevel_Never(level) == FALSE

\* if level > max_level: return
BeyondMaxLevel(level) == level > max_level

Push(t, f) == [t EXCEPT !.stack = Append(@, f)]
Top(t) == t.stack[Len(t.stack)]
SetTop(t, f) == [t EXCEPT !.stack[Len(t.stack)] = f]

\* get_note_all_inner_comment_with_provider(c, level=level) up to its first request
\* or its first recursive call
Enter(t, c, level) ==
    IF BeyondMaxLevel(level) THEN [t EXCEPT !.capped = TRUE]
    ELSE IF Hint(t.shape, c) = 0 THEN t
    ELSE IF Len(Inline(t.shape, c)) >= Hint(t.shape, c)
    THEN Push(t, [c |-> c, level |-> level, phase |-> "recurse", off |-> 0,
                  inner |-> <<>>, retry_count |-> 0, subs |-> Inline(t.shape, c), j |-> 1])
    ELSE Push(t, [c |-> c, level |-> level, phase |-> "fetch", off |-> 0,
                  inner |-> <<>>, retry_count |-> 0, subs |-> Inline(t.shape, c), j |-> 1])

\* a for loop that goes on to the next top-level comment while replies are expanded
CanEmitTop_Any(t) == TRUE

\* the for loop takes the next top-level comment when the call for the last one returned
CanEmitTop(t) == t.stack = <<>>

\* save_callback(sub_comment, level) for every comment of a page
Written(level, parent, comments) ==
    [i \in 1..Len(comments) |-> [id |-> comments[i], level |-> level, parent |-> parent]]

\* the next top-level comment is written with _level 1 and expanded
EmitTop ==
    /\ tw.shape # "none"
    /\ CanEmitTop(tw)
    /\ tw.k <= Len(Tops(tw.shape))
    /\ LET c == Tops(tw.shape)[tw.k]
           t == [tw EXCEPT !.sink = Append(@, [id |-> c, level |-> 1, parent |-> 0]),
                           !.k = @ + 1]
       IN tw' = IF Hint(tw.shape, c) > 0 THEN Enter(t, c, 2) ELSE t
    /\ UNCHANGED <<walkVars, poolVars, th, disk, sv, hist, callVars>>

\* one page of replies arrives: every reply is written with _level and _parent_id;
\* after the last page the fetched list replaces comment['sub_comments']
SubPageOK ==
    /\ tw.stack # <<>> /\ Top(tw).phase = "fetch"
    /\ LET f == Top(tw)
           res == ReplyPage(tw.shape, f.c, f.off)
           inner == f.inner \o res.comments
           t == [tw EXCEPT !.sink = @ \o Written(f.level, f.c, res.comments)]
       IN tw' = IF res.has_more
                THEN SetTop(t, [f EXCEPT !.off = res.cursor, !.inner = inner])
                ELSE SetTop(t, [f EXCEPT !.phase = "recurse", !.subs = inner, !.j = 1])
    /\ UNCHANGED <<walkVars, poolVars, th, disk, sv, hist, callVars>>

\* a page request fails: the next round of the retry loop keeps cursor and list; after
\* the last round the inline replies are kept
SubPageFault ==
    /\ tw.stack # <<>> /\ Top(tw).phase = "fetch"
    /\ tw.faults < MaxSubFaults
    /\ LET f == Top(tw)
           t == [tw EXCEPT !.faults = @ + 1]
       IN tw' = IF f.retry_count < SUB_COMMENT_MAX_RETRIES - 1
                THEN SetTop(t, [f EXCEPT !.retry_count = @ + 1])
                ELSE SetTop([t EXCEPT !.failed = TRUE],
                            [f EXCEPT !.phase = "recurse", !.j = 1])
    /\ UNCHANGED <<walkVars, poolVars, th, disk, sv, hist, callVars>>

\* for sub_comment in comment['sub_comments']: the recursive call at level + 1
Descend ==
    /\ tw.stack # <<>> /\ Top(tw).phase = "recurse"
    /\ Top(tw).j <= Len(Top(tw).subs)
    /\ LET f == Top(tw)
       IN tw' = Enter(SetTop(tw, [f EXCEPT !.j = @ + 1]), f.subs[f.j], f.level + 1)
    /\ UNCHANGED <<walkVars, poolVars, th, disk, sv, hist, callVars>>

\* return True, 'success', comment
Return ==
    /\ tw.stack # <<>> /\ Top(tw).phase = "recurse"
    /\ Top(tw).j > Len(Top(tw).subs)
    /\ tw' = [tw EXCEPT !.stack = SubSeq(@, 1, Len(@) - 1)]
    /\ UNCHANGED <<walkVars, poolVars, th, disk, sv, hist, callVars>>

TreeNext == EmitTop \/ SubPageOK \/ SubPageFault \/ Descend \/ Return

TreeInit ==
    /\ pc = "idle" /\ progress_data = NewProgress /\ fullFiles = {}
    /\ sink = [n \in Notes |-> <<>>]
    /\ co = CO0 /\ wk = WK0 /\ rt = RT0 /\ sb = SB0
    /\ env = [runs |-> 0, faults |-> 0] /\ gh = GH0
    /\ th = TH0 /\ disk = DISK0 /\ sv = SV0 /\ hist = HIST0 /\ CallIdle
    /\ accounts = <<>> /\ strategy = "round_robin" /\ last_used_index = -1
    /\ config = <<>> /\ now = 0 /\ held = {} /\ admin = 0 /\ gets = 0 /\ log = <<>>
    /\ ret = "None"
    /\ \E sh \in Shapes : tw = [TW0 EXCEPT !.shape = sh]

SpecTree == TreeInit /\ [][TreeNext]_vars

\* the comment a reply answers; 0 for a top-level comment
ParentOf(sh, c) ==
    IF \E p \in Comments(sh) : c \in Range(Kids(sh, p))
    THEN CHOOSE p \in Comments(sh) : c \in Range(Kids(sh, p))
    ELSE 0

RECURSIVE Ancestors(_, _)
Ancestors(sh, c) ==
    IF ParentOf(sh, c) = 0 THEN {}
    ELSE {ParentOf(sh, c)} \cup Ancestors(sh, ParentOf(sh, c))

\* 1 for a top-level comment, 2 for its replies, ...
LevelOf(sh, c) == Cardinality(Ancestors(sh, c)) + 1

\* position of c among the replies of its parent (among the page's comments for a
\* top-level comment)
Position(sh, c) ==
    LET row == IF ParentOf(sh, c) = 0 THEN Tops(sh) ELSE Kids(sh, ParentOf(sh, c))
    IN CHOOSE i \in 1..Len(row) : row[i] = c

\* the top-level comment whose tree c is in
TopOf(sh, c) == CHOOSE a \in Range(Tops(sh)) : a = c \/ a \in Ancestors(sh, c)

TreeDone == tw.shape # "none" /\ tw.stack = <<>> /\ tw.k > Len(Tops(tw.shape))

\* C25: for top-level comments A before B in page order, every record of A's tree is
\* written before B and before every record of B's tree.
C25_TopLevelTreesInOrder ==
    \A i, j \in 1..Len(tw.sink) :
        i < j => Position(tw.shape, TopOf(tw.shape, tw.sink[i].id))
                   <= Position(tw.shape, TopOf(tw.shape, tw.sink[j].id))

\* the page of T and B has been walked: B and its reply follow T's five descendants
C25_Witness ==
    /\ TreeDone /\ tw.shape = "family" /\ ~tw.failed
    /\ Len(tw.sink) = 7
    /\ tw.sink[6].id = 2 /\ tw.sink[7].id = 7

\* C26: between siblings on any level the expansion is depth-first: every record of
\* the subtree of one comment is written before the record of its next sibling.
C26_DepthFirstBetweenSiblings ==
    \A i, j \in 1..Len(tw.sink) :
        LET x == tw.sink[i].id
            d == tw.sink[j].id
        IN \A y \in Ancestors(tw.shape, d) :
              (/\ ParentOf(tw.shape, y) = ParentOf(tw.shape, x)
               /\ Position(tw.shape, y) < Position(tw.shape, x))
              => j < i

\* C27: every record has _level >= 1, and every record with _level > 1 has the
\* _parent_id of a record written earlier whose _level is one less.
C27_ParentWrittenEarlier ==
    \A i \in 1..Len(tw.sink) :
        /\ tw.sink[i].level >= 1
        /\ tw.sink[i].level > 1 =>
              \E j \in 1..(i - 1) : /\ tw.sink[j].id = tw.sink[i].parent
                                    /\ tw.sink[j].level = tw.sink[i].level - 1

\* C29: when every request succeeded and the page has been walked, every comment of
\* the page down to level max_level has its own record with its _level and its
\* _parent_id: top-level comments, replies obtained by pagination and replies the
\* server returned inline.
C29_EveryCommentWritten ==
    (TreeDone /\ tw.faults = 0) =>
        \A c \in Comments(tw.shape) :
            LevelOf(tw.shape, c) <= max_level =>
                \E i \in 1..Len(tw.sink) :
                    tw.sink[i] = [id |-> c, level |-> LevelOf(tw.shape, c),
                                  parent |-> ParentOf(tw.shape, c)]

\* C30: no record with _level above max_level is written, no reply page is requested
\* for an expansion above max_level, and the call stack never grows beyond
\* max_level - 1 calls, however long the reply chain is.
C30_ExpansionBounded ==
    /\ \A i \in 1..Len(tw.sink) : tw.sink[i].level <= max_level
    /\ \A i \in 1..Len(tw.stack) : tw.stack[i].level <= max_level
    /\ Len(tw.stack) <= max_level - 1

\* the walk of a chain longer than max_level has ended: the call at level 11 returned
\* at once, and the comments below level 10 have no record
C30_Witness ==
    /\ TreeDone /\ tw.shape = "chain" /\ tw.capped /\ tw.faults = 0
    /\ Len(tw.sink) = max_level
    /\ ChainDepth > max_level

----------------------------------------------------------------------------
(* The pool of two credentials whose daily_limit was set to SmallLimit by
   update_all_settings in an earlier process; the settings are not changed again *)

\* the config file update_all_settings(daily_limit=SmallLimit) left behind
CapConfig ==
    [strategy |-> "random",
     accounts |-> <<[Persisted(NewAccount("A", 0)) EXCEPT !.daily_limit = SmallLimit],
                    [Persisted(NewAccount("B", 0)) EXCEPT !.daily_limit = SmallLimit]>>]

\* CookiePool(config_file) on CapConfig
CapInit ==
    /\ pc = "idle" /\ progress_data = NewProgress /\ fullFiles = {}
    /\ sink = [n \in Notes |-> <<>>]
    /\ co = CO0 /\ wk = WK0 /\ rt = RT0 /\ sb = SB0
    /\ env = [runs |-> 0, faults |-> 0] /\ gh = GH0
    /\ AuxIdle
    /\ config = CapConfig
    /\ accounts = [i \in 1..Len(config.accounts) |-> Loaded(config.accounts[i], 0)]
    /\ strategy = config.strategy /\ last_used_index = -1
    /\ now = 0 /\ held = {} /\ admin = 0 /\ gets = 0 /\ log = <<>> /\ ret = "None"

CapNext ==
    \/ get_available_account
    \/ \E id \in held : mark_account_success(id)
    \/ \E id \in held : mark_account_error(id)
    \/ SkipTried
    \/ \E id \in Creds : reset_account(id)
    \/ Restart
    \/ Tick

SpecCap == CapInit /\ [][CapNext]_vars

\* the credential reached its cap on an earlier day and nothing else holds it back
AtCapSinceYesterday(a, t) ==
    /\ a.daily_use_count >= a.daily_limit
    /\ Date(t) > a.last_reset_date
    /\ a.is_active
    /\ ~(a.cooldown_until # None /\ t < a.cooldown_until)
    /\ ~(a.last_use_time # None /\ t - a.last_use_time < a.min_interval)
    /\ a.error_count < ErrorFilterThreshold

\* C35: get_available_account never returns a credential that is at its daily cap,
\* so with unchanged daily_limit settings daily_use_count <= daily_limit in every
\* reachable state; a credential at its cap passes can_use again once the calendar
\* day has rolled over (the counter is reset lazily by the next can_use).
C35_DailyCapRespected ==
    [][/\ \A i \in 1..Len(accounts') :
             accounts'[i].daily_use_count <= accounts'[i].daily_limit
       /\ get_available_account =>
             /\ ret' # "None" =>
                   LET a == accounts[Index(accounts, ret')]
                   IN DailyUsedToday(a, now) < a.daily_limit
             /\ \A i \in 1..Len(accounts) :
                   AtCapSinceYesterday(accounts[i], now) =>
                       /\ can_use(accounts[i], now).ok
                       /\ ret' # "None"
                       /\ accounts'[i].daily_use_count <= 1
      ]_vars

\* a credential used up to its cap on day 0 was handed out again on day 1
C35_Witness ==
    /\ Date(now) = 1 /\ ret # "None" /\ ret \in Ids(accounts)
    /\ LET a == accounts[Index(accounts, ret)]
       IN /\ a.use_count = a.daily_limit + 1
          /\ a.daily_use_count = 1
          /\ a.last_use_time = now

----------------------------------------------------------------------------
\* C37: with a single caller that reports a failure only for the credential it
\* obtained from get_available_account, error_count never exceeds 5: a credential
\* with error_count >= 5 is not handed out again before reset_account, so it stays
\* active and the hard-disable at 10 errors is never taken.
C37_ErrorCountStopsAtFilter ==
    /\ \A i \in 1..Len(accounts) :
          /\ accounts[i].error_count <= ErrorFilterThreshold
          /\ accounts[i].is_active
    /\ \A id \in held :
          id \in Ids(accounts) => accounts[Index(accounts, id)].error_count < ErrorFilterThreshold

\* a credential reached five errors, its cooldown ran out, and the next
\* get_available_account call did not hand it out
C37_Witness ==
    /\ ret = "None" /\ gets >= 2
    /\ \E i \in 1..Len(accounts) :
          /\ accounts[i].error_count = ErrorFilterThreshold
          /\ accounts[i].cooldown_until # None /\ now >= accounts[i].cooldown_until
          /\ accounts[i].is_active

----------------------------------------------------------------------------
\* the reason can_use gives for its answer, in the order of its checks
RejectReason(a, t) ==
    IF ~a.is_active THEN "inactive"
    ELSE IF a.cooldown_until # None /\ t < a.cooldown_until THEN "cooldown"
    ELSE IF a.last_use_time # None /\ t - a.last_use_time < a.min_interval THEN "interval"
    ELSE IF DailyUsedToday(a, t) >= a.daily_limit THEN "daily"
    ELSE IF a.error_count >= ErrorFilterThreshold THEN "errors"
    ELSE "ok"

\* C38: save_config followed by load_config into a new CookiePool preserves every
\* credential's eligibility: a credential that can_use rejected before the save
\* because of its cooldown or its daily cap is still rejected right after the load.
C38_ReloadKeepsRejections ==
    [][(Restart /\ config = save_config(accounts, strategy)) =>
          \A i \in 1..Len(accounts) :
             RejectReason(accounts[i], now) \in {"cooldown", "daily"}
                => ~can_use(accounts'[i], now).ok
      ]_vars

----------------------------------------------------------------------------
(* get_with_cookie_pool_retry over the pool: the loop of json_to_full_data.py
   lines 143-185, one step per pool call or API request, with the clock moving
   during time.sleep and during a request *)

WaitSeconds == 2            \* wait_time = 2
MaxRequestSeconds == 3      \* the longest API request
RequestSeconds == {0, MaxRequestSeconds}

\* the config files of a pool [A, B]: B fresh or filtered out after five failures,
\* default settings or update_all_settings(daily_limit=SmallLimit, min_interval=0)
RetryConfigs ==
    {[strategy |-> st,
      accounts |-> <<[Persisted(NewAccount("A", 0)) EXCEPT
                         !.daily_limit = lim, !.min_interval = iv],
                     [Persisted(NewAccount("B", 0)) EXCEPT
                         !.daily_limit = lim, !.min_interval = iv,
                         !.use_count = e, !.fail_count = e, !.error_count = e]>>] :
        st \in {"round_robin", "random"},
        e \in {0, ErrorFilterThreshold},
        lim \in {DefaultDailyLimit},
        iv \in {DefaultMinInterval}}
    \cup
    {[strategy |-> st,
      accounts |-> <<[Persisted(NewAccount("A", 0)) EXCEPT
                         !.daily_limit = SmallLimit, !.min_interval = 0],
                     [Persisted(NewAccount("B", 0)) EXCEPT
                         !.daily_limit = SmallLimit, !.min_interval = 0,
                         !.use_count = e, !.fail_count = e, !.error_count = e]>>] :
        st \in {"round_robin", "random"},
        e \in {0, ErrorFilterThreshold}}

RetryInit ==
    /\ pc = "idle" /\ progress_data = NewProgress /\ fullFiles = {}
    /\ sink = [n \in Notes |-> <<>>]
    /\ co = CO0 /\ wk = WK0 /\ rt = RT0 /\ sb = SB0
    /\ env = [runs |-> 0, faults |-> 0] /\ gh = GH0
    /\ AuxIdle
    /\ config \in RetryConfigs
    /\ accounts = [i \in 1..Len(config.accounts) |-> Loaded(config.accounts[i], 0)]
    /\ strategy = config.strategy /\ last_used_index = -1
    /\ now = 0 /\ held = {} /\ admin = 0 /\ gets = 0 /\ log = <<>> /\ ret = "None"

\* the call, up to the first test of the while condition
CallStart ==
    /\ call.pc \in {"none", "returned"}
    /\ call.calls < MaxCalls
    /\ call' = [pc |-> IF Len(accounts) = 0 THEN "returned" ELSE "loop",
                tried |-> {}, total_accounts |-> Len(accounts), wait_rounds |-> 0,
                account |-> "None", requests |-> <<>>,
                daily0 |-> [i \in 1..Len(accounts) |-> accounts[i].daily_use_count],
                calls |-> call.calls + 1,
                result |-> IF Len(accounts) = 0 THEN "fail" ELSE "none"]
    /\ UNCHANGED <<walkVars, poolVars, th, disk, sv, hist, tw, xp, lk, io>>

\* while len(tried_cookie_ids) < total_accounts: no credential left to try
CallExhausted ==
    /\ call.pc = "loop"
    /\ Cardinality(call.tried) >= call.total_accounts
    /\ call' = [call EXCEPT !.pc = "returned", !.result = "fail"]
    /\ UNCHANGED <<walkVars, poolVars, th, disk, sv, hist, tw, xp, lk, io>>

\* one round of the loop up to the request: get_available_account, then wait,
\* give up, skip a credential already tried, or go on to the request
CallGet ==
    /\ call.pc = "loop"
    /\ Cardinality(call.tried) < call.total_accounts
    /\ Acquire
    /\ IF ret' = "None"
       THEN IF call.wait_rounds < max_wait_rounds
            THEN /\ call' = [call EXCEPT !.wait_rounds = @ + 1]
                 /\ now' = now + WaitSeconds
            ELSE /\ call' = [call EXCEPT !.pc = "returned", !.result = "fail"]
                 /\ now' = now
       ELSE /\ now' = now
            /\ IF ret' \in call.tried
               THEN call' = call
               ELSE call' = [call EXCEPT !.tried = @ \cup {ret'}, !.account = ret',
                                         !.pc = "request"]
    /\ UNCHANGED <<strategy, config, admin, gets>>
    /\ UNCHANGED <<walkVars, th, disk, sv, hist, tw, xp, lk, io>>

\* api_func(..., cookies_str=account.cookie_str) succeeds: mark_account_success, return
CallRequestOK ==
    /\ call.pc = "request"
    /\ \E d \in RequestSeconds : now' = now + d
    /\ LET i == Index(accounts, call.account)
       IN accounts' = Replace(accounts, i, mark_success(accounts[i]))
    /\ config' = save_config(accounts', strategy)
    /\ held' = held \ {call.account}
    /\ call' = [call EXCEPT !.requests = Append(@, call.account),
                            !.pc = "returned", !.result = "ok"]
    /\ UNCHANGED <<strategy, last_used_index, admin, gets, log, ret>>
    /\ UNCHANGED <<walkVars, th, disk, sv, hist, tw, xp, lk, io>>

\* the request fails or raises: mark_account_error, next round
CallRequestFail ==
    /\ call.pc = "request"
    /\ \E d \in RequestSeconds : now' = now + d
    /\ LET i == Index(accounts, call.account)
       IN accounts' = Replace(accounts, i, mark_error(accounts[i], now'))
    /\ config' = save_config(accounts', strategy)
    /\ held' = held \ {call.account}
    /\ call' = [call EXCEPT !.requests = Append(@, call.account), !.pc = "loop"]
    /\ UNCHANGED <<strategy, last_used_index, admin, gets, log, ret>>
    /\ UNCHANGED <<walkVars, th, disk, sv, hist, tw, xp, lk, io>>

RetryNext ==
    \/ CallStart
    \/ CallExhausted
    \/ CallGet
    \/ CallRequestOK
    \/ CallRequestFail

\* the loop runs in one thread of a running process; nothing else is scheduled
SpecRetry == RetryInit /\ [][RetryNext]_vars /\ WF_vars(RetryNext)

\* the number of requests of the current call made under credential id
RequestsUnder(id) ==
    Cardinality({j \in 1..Len(call.requests) : call.requests[j] = id})

\* C33: get_with_cookie_pool_retry terminates for every pool state and every
\* sequence of request outcomes: it issues at most one request per credential,
\* hence at most pool-size requests, waits at most 3 rounds, and returns failure
\* when these budgets are used up.
C33_RetryTerminates ==
    /\ [](/\ Len(call.requests) <= call.total_accounts
          /\ \A id \in Creds : RequestsUnder(id) <= 1
          /\ call.wait_rounds <= 3
          /\ (call.pc = "returned" /\ call.result = "fail") =>
                \/ Cardinality(call.tried) >= call.total_accounts
                \/ call.wait_rounds = 3)
    /\ (call.pc \in {"loop", "request"}) ~> (call.pc = "returned")

\* a call gave up after three wait rounds with one credential tried and one not
C33_Witness ==
    /\ call.pc = "returned" /\ call.result = "fail"
    /\ call.wait_rounds = 3
    /\ Len(call.requests) = 1 /\ call.total_accounts = 2

\* C36: in get_with_cookie_pool_retry every credential obtained from
\* get_available_account is used for exactly one API request: daily_use_count does
\* not increase without a request, also when the pool hands back a credential that
\* was already tried in this call.
C36_EveryUseIsARequest ==
    call.pc \in {"loop", "returned"} =>
        \A i \in 1..Len(accounts) :
            accounts[i].daily_use_count - call.daily0[i] = RequestsUnder(accounts[i].cookie_id)

----------------------------------------------------------------------------
(* get_note_all_inner_comment_with_provider for the top-level comments of one page,
   with the cookie provider save_comments_streaming passes in. The page was fetched
   by get_with_cookie_pool_retry under the credential xp.account. The sleeps of the
   expansion move only the clock, which the expansion never reads. *)

API_CODE_RATE_LIMITED == 300013
MaxParents == 2         \* top-level comments of the page that need their replies fetched
ReplyPages == 2         \* pages of replies of each of them

\* the answers of /api/sns/web/v2/comment/sub/page the code tells apart:
\* res_json["success"] and res_json["code"]
Responses == [success : BOOLEAN, code : {0, API_CODE_RATE_LIMITED}]

\* "limited": the server answers every request of this parent with code 300013,
\* each time with the same "success" field
Answers(mode, flag) ==
    IF mode = "limited" THEN {[success |-> flag, code |-> API_CODE_RATE_LIMITED]}
    ELSE Responses

\* the outcome is a failure of the credential: not successful, or rate-limited
CredentialFailure(r) == ~r.success \/ r.code = API_CODE_RATE_LIMITED

\* get_cookie_for_comment: the page's account first, then the pool, then cookies_str
get_cookie_for_comment(account, accts, t) ==
    IF account # "None" THEN [ok |-> TRUE, cookie |-> account]
    ELSE IF Available(accts, t) # <<>>
         THEN [ok |-> TRUE, cookie |-> accts[Available(accts, t)[1]].cookie_id]
         ELSE [ok |-> FALSE, cookie |-> "None"]

\* the pool [A, B] after get_with_cookie_pool_retry fetched the page under credential x
ExpandInit ==
    /\ pc = "idle" /\ progress_data = NewProgress /\ fullFiles = {}
    /\ sink = [n \in Notes |-> <<>>]
    /\ co = CO0 /\ wk = WK0 /\ rt = RT0 /\ sb = SB0
    /\ env = [runs |-> 0, faults |-> 0] /\ gh = GH0
    /\ th = TH0 /\ disk = DISK0 /\ sv = SV0 /\ hist = HIST0 /\ tw = TW0
    /\ call = CALL0 /\ lk = LK0 /\ io = IO0
    /\ \E x \in Creds, st \in {"round_robin", "random"} :
         LET base == <<NewAccount("A", 0), NewAccount("B", 0)>>
             i == Index(base, x)
         IN /\ accounts = Replace(base, i, mark_success(use(base[i], 0)))
            /\ strategy = st
            /\ config = save_config(accounts, st)
            /\ xp = [XP0 EXCEPT !.account = x]
    /\ last_used_index = -1
    /\ now = 0 /\ held = {} /\ admin = 0 /\ gets = 0 /\ log = <<>> /\ ret = "None"

\* the walker calls the expansion for the next top-level comment
XpCall ==
    /\ xp.pc = "none"
    /\ xp.k < MaxParents
    /\ \E m \in {"normal", "limited"}, f \in BOOLEAN :
         xp' = [xp EXCEPT !.pc = "provider", !.k = @ + 1, !.mode = m, !.flag = f,
                          !.retry_count = 0,
                          !.cookie = "None", !.page = 0, !.last = NoRequest,
                          !.fail0 = [i \in 1..Len(accounts) |-> accounts[i].fail_count]]
    /\ UNCHANGED <<walkVars, poolVars, th, disk, sv, hist, tw, call, lk, io>>

\* top of a round of "for retry_count in range(SUB_COMMENT_MAX_RETRIES)": cookie_provider()
XpProvider ==
    /\ xp.pc = "provider"
    /\ LET c == get_cookie_for_comment(xp.account, accounts, now)
       IN IF c.ok
          THEN xp' = [xp EXCEPT !.pc = "request", !.cookie = c.cookie]
          ELSE IF xp.retry_count < SUB_COMMENT_MAX_RETRIES - 1
               THEN xp' = [xp EXCEPT !.retry_count = @ + 1]
               ELSE xp' = [xp EXCEPT !.pc = "done"]
    /\ UNCHANGED <<walkVars, poolVars, th, disk, sv, hist, tw, call, lk, io>>

\* one get_note_inner_comment request of the "while True" loop and what follows
\* from its answer
XpRequest ==
    /\ xp.pc = "request"
    /\ \E r \in Answers(xp.mode, xp.flag) :
         LET x == [xp EXCEPT !.last = [cookie |-> xp.cookie, failed |-> CredentialFailure(r)]]
             lastRound == xp.retry_count >= SUB_COMMENT_MAX_RETRIES - 1
         IN IF ~r.success
            THEN \* raise Exception(msg): next round, or break on the last round
                 xp' = IF lastRound THEN [x EXCEPT !.pc = "done"]
                       ELSE [x EXCEPT !.pc = "provider", !.retry_count = @ + 1]
            ELSE IF r.code = API_CODE_RATE_LIMITED
            THEN IF lastRound
                 THEN \* time.sleep(SUB_COMMENT_RETRY_WAIT)
                      xp' = [x EXCEPT !.pc = "wait"]
                 ELSE \* raise Exception("RateLimited_..."): next round
                      xp' = [x EXCEPT !.pc = "provider", !.retry_count = @ + 1]
            ELSE \* a page of replies
                 xp' = IF xp.page + 1 < ReplyPages
                       THEN [x EXCEPT !.page = @ + 1]
                       ELSE [x EXCEPT !.page = @ + 1, !.pc = "done"]
    /\ UNCHANGED <<walkVars, poolVars, th, disk, sv, hist, tw, call, lk, io>>

\* after the last-round sleep: cookie_provider() again, then "continue" the
\* "while True" loop with the request
XpWait ==
    /\ xp.pc = "wait"
    /\ LET c == get_cookie_for_comment(xp.account, accounts, now)
       IN xp' = IF c.ok THEN [xp EXCEPT !.pc = "request", !.cookie = c.cookie]
                ELSE [xp EXCEPT !.pc = "done"]
    /\ UNCHANGED <<walkVars, poolVars, th, disk, sv, hist, tw, call, lk, io>>

\* the expansion returns to the walker
XpReturn ==
    /\ xp.pc = "done"
    /\ xp' = [xp EXCEPT !.pc = "none"]
    /\ UNCHANGED <<walkVars, poolVars, th, disk, sv, hist, tw, call, lk, io>>

ExpandNext ==
    \/ XpCall
    \/ XpProvider
    \/ XpRequest
    \/ XpWait
    \/ XpReturn

\* the walker is one thread of a running process: its next step is always taken
SpecExpand == ExpandInit /\ [][ExpandNext]_vars /\ WF_vars(ExpandNext)

\* the pool holds a credential other than id that can_use accepts
OtherEligible(id) ==
    \E i \in 1..Len(accounts) : accounts[i].cookie_id # id /\ can_use(accounts[i], now).ok

\* C31 (sub-comment pages): a rate-limited (300013) or auth-expired outcome is never
\* retried on the same credential: after such an outcome under credential X, the
\* failure is reported to the pool for X and the next request for that page is issued
\* under a different credential, as long as the pool holds another eligible one.
C31_FailedCredentialNotReused ==
    [][(XpRequest /\ xp.last.failed /\ OtherEligible(xp.last.cookie)) =>
          /\ xp.cookie # xp.last.cookie
          /\ accounts[Index(accounts, xp.last.cookie)].fail_count
                > xp.fail0[Index(accounts, xp.last.cookie)]
      ]_vars

\* C32: under a server that answers every sub-comment page request of a parent with
\* 300013, the expansion of that parent terminates: once the retry and wait budgets
\* are used up, get_note_all_inner_comment_with_provider gives up and returns to the
\* walker, which goes on with the next top-level comment.
C32_RateLimitedExpansionTerminates ==
    (xp.pc = "provider" /\ xp.mode = "limited") ~> (xp.pc = "none")

----------------------------------------------------------------------------
(* A note of the input file given as (note_id, xsec_token): the URL parse_json_file
   builds from it, and what the three readers of that URL get back. Strings are
   sequences of characters; the two fixed pieces of the URL are one symbol each. *)

MaxIdLen == 2
MaxTokenLen == 3
HexChars == {"a", "7"}                    \* characters matching [a-f0-9]
TokenChars == {"a", "7", "=", "+"}        \* characters of a base64 token
ExplorePrefix == "https://www.xiaohongshu.com/explore/"

\* the strings over a set of characters up to a length
Strings(chars, n) == UNION {[1..k -> chars] : k \in 0..n}

\* parse_json_file: f"https://www.xiaohongshu.com/explore/{note_id}?xsec_token={xsec_token}"
SynthesizeUrl(note_id, xsec_token) ==
    <<ExplorePrefix>> \o note_id \o <<"?", "xsec_token", "=">> \o xsec_token

\* position of the first occurrence of c in s, 0 when there is none
Find(s, c) ==
    IF \E i \in 1..Len(s) : s[i] = c
    THEN CHOOSE i \in 1..Len(s) : s[i] = c /\ \A j \in 1..(i - 1) : s[j] # c
    ELSE 0

\* str.split(sep)
RECURSIVE Split(_, _)
Split(s, sep) ==
    LET i == Find(s, sep)
    IN IF i = 0 THEN <<s>>
       ELSE <<SubSeq(s, 1, i - 1)>> \o Split(SubSeq(s, i + 1, Len(s)), sep)

\* urlparse(url).query: what follows the first "?"
Query(url) ==
    LET i == Find(url, "?")
    IN IF i = 0 THEN <<>> ELSE SubSeq(url, i + 1, Len(url))

\* ProgressManager.extract_note_id: re.search(r'/explore/([a-f0-9]+)', note_url);
\* <<>> stands for None
extract_note_id(url) ==
    LET i == Find(url, ExplorePrefix)
        rest == SubSeq(url, i + 1, Len(url))
        run == CHOOSE k \in 0..Len(rest) :
                   /\ \A j \in 1..k : rest[j] \in HexChars
                   /\ (k < Len(rest) => rest[k + 1] \notin HexChars)
    IN IF i = 0 THEN <<>> ELSE SubSeq(rest, 1, run)

\* XHS_Apis._parse_url_params(query)['xsec_token'] as get_note_info reads it:
\* every kv is split at every "=", the value is parts[1]; a later kv overwrites
_parse_url_params(query) ==
    LET kvs == Split(query, "&")
        F[i \in 0..Len(kvs)] ==
            IF i = 0 THEN <<>>
            ELSE LET parts == Split(kvs[i], "=")
                 IN IF kvs[i] # <<>> /\ parts[1] = <<"xsec_token">>
                    THEN (IF Len(parts) >= 2 THEN parts[2] ELSE <<>>)
                    ELSE F[i - 1]
    IN F[Len(kvs)]

\* unquote(value.replace('+', ' ')) for a value without %-escapes
PlusToSpace(v) == [i \in 1..Len(v) |-> IF v[i] = "+" THEN " " ELSE v[i]]

\* parse_qs(query).get('xsec_token', [''])[0] as get_note_full_info reads it: every kv
\* is cut at its first "=", blank values are dropped, "+" decodes to a space; the
\* first value of the key is taken
parse_qs(query) ==
    LET kvs == Split(query, "&")
        Value(kv) == LET i == Find(kv, "=")
                     IN IF i = 0 THEN <<>> ELSE SubSeq(kv, i + 1, Len(kv))
        Name(kv) == LET i == Find(kv, "=")
                    IN IF i = 0 THEN kv ELSE SubSeq(kv, 1, i - 1)
        hits == {i \in 1..Len(kvs) : Name(kvs[i]) = <<"xsec_token">> /\ Value(kvs[i]) # <<>>}
    IN IF hits = {} THEN <<>>
       ELSE PlusToSpace(Value(kvs[CHOOSE i \in hits : \A j \in hits : i <= j]))

\* one note of the input file
UrlInit ==
    /\ pc = "idle" /\ progress_data = NewProgress /\ fullFiles = {}
    /\ sink = [n \in Notes |-> <<>>]
    /\ co = CO0 /\ wk = WK0 /\ rt = RT0 /\ sb = SB0
    /\ env = [runs |-> 0, faults |-> 0] /\ gh = GH0
    /\ th = TH0 /\ disk = DISK0 /\ sv = SV0 /\ hist = HIST0 /\ tw = TW0
    /\ call = CALL0 /\ xp = XP0 /\ lk = LK0
    /\ accounts = <<>> /\ strategy = "round_robin" /\ last_used_index = -1
    /\ config = <<>> /\ now = 0 /\ held = {} /\ admin = 0 /\ gets = 0 /\ log = <<>>
    /\ ret = "None"
    /\ \E id \in Strings(HexChars, MaxIdLen) \ {<<>>}, tok \in Strings(TokenChars, MaxTokenLen) :
         io = [IO0 EXCEPT !.stage = "input", !.note_id = id, !.xsec_token = tok]

\* parse_json_file builds the URL
Synthesize ==
    /\ io.stage = "input"
    /\ io' = [io EXCEPT !.stage = "url", !.note_url = SynthesizeUrl(io.note_id, io.xsec_token)]
    /\ UNCHANGED <<walkVars, poolVars, th, disk, sv, hist, tw, call, xp, lk>>

\* the coordinator asks the progress manager for the note id
ExtractNoteId ==
    /\ io.stage = "url"
    /\ io' = [io EXCEPT !.stage = "id", !.id_out = extract_note_id(io.note_url)]
    /\ UNCHANGED <<walkVars, poolVars, th, disk, sv, hist, tw, call, xp, lk>>

\* get_note_info reads the token it sends to the feed API
ReadInfoToken ==
    /\ io.stage = "id"
    /\ io' = [io EXCEPT !.stage = "info", !.info_token = _parse_url_params(Query(io.note_url))]
    /\ UNCHANGED <<walkVars, poolVars, th, disk, sv, hist, tw, call, xp, lk>>

\* get_note_full_info reads the token it passes to save_comments_streaming
ReadCommentsToken ==
    /\ io.stage = "info"
    /\ io' = [io EXCEPT !.stage = "parsed", !.comments_token = parse_qs(Query(io.note_url))]
    /\ UNCHANGED <<walkVars, poolVars, th, disk, sv, hist, tw, call, xp, lk>>

UrlNext ==
    \/ Synthesize
    \/ ExtractNoteId
    \/ ReadInfoToken
    \/ ReadCommentsToken

SpecUrl == UrlInit /\ [][UrlNext]_vars

\* C34: encoding a (note_id, xsec_token) pair into the input format and parsing it
\* back (URL synthesis in parse_json_file, then extract_note_id and the extraction of
\* xsec_token) yields the same pair for every id and token, including tokens that
\* contain '=' or '+'.
C34_UrlRoundTrip ==
    io.stage = "parsed" =>
        /\ io.id_out = io.note_id
        /\ io.info_token = io.xsec_token
        /\ io.comments_token = io.xsec_token

----------------------------------------------------------------------------
\* C39: mark_note_processing on a note that already has a record leaves that
\* record's comments.last_cursor, total_fetched and total_expected unchanged, and
\* leaves the record of every other note unchanged.
C39_ReprocessKeepsResumePoint ==
    [][(BeginNote /\ co.pending[co.i] \in DOMAIN progress_data.notes_progress) =>
          LET n == co.pending[co.i]
              old == progress_data.notes_progress
              new == progress_data'.notes_progress
          IN /\ DOMAIN new = DOMAIN old
             /\ new[n].last_cursor = old[n].last_cursor
             /\ new[n].total_fetched = old[n].total_fetched
             /\ new[n].total_expected = old[n].total_expected
             /\ \A m \in DOMAIN old : m # n => new[m] = old[m]
      ]_vars

\* a later run has just taken up a note whose record holds a resume point, while
\* another note has a record too
C39_Witness ==
    /\ pc = "info" /\ env.runs >= 2
    /\ co.note_id \in DOMAIN progress_data.notes_progress
    /\ LET r == progress_data.notes_progress[co.note_id]
       IN /\ r.status = "processing" /\ r.current_page = 0
          /\ r.last_cursor # "" /\ r.total_fetched > 0 /\ r.total_expected > 0
    /\ \E m \in DOMAIN progress_data.notes_progress : m # co.note_id

----------------------------------------------------------------------------
(* Two threads calling get_available_account on the same pool. The method body
   runs under "with self.lock": the scan of the accounts and the selection with
   selected.use() are separate statements of that body. *)

\* thread t calls get_available_account
LkCall(t) ==
    /\ lk.pc[t] = "idle"
    /\ lk.calls[t] < MaxCalls
    /\ lk' = [lk EXCEPT !.pc[t] = "waiting", !.calls[t] = @ + 1]
    /\ UNCHANGED <<walkVars, poolVars, th, disk, sv, hist, tw, call, xp, io>>

\* an entry into the method body that does not wait for the lock
LkEnter_NoLock(t) ==
    /\ lk.pc[t] = "waiting"
    /\ lk' = [lk EXCEPT !.owner = t, !.pc[t] = "locked"]
    /\ UNCHANGED <<walkVars, poolVars, th, disk, sv, hist, tw, call, xp, io>>

\* with self.lock: the thread enters when no thread holds the lock
LkEnter(t) ==
    /\ lk.pc[t] = "waiting"
    /\ lk.owner = "None"
    /\ lk' = [lk EXCEPT !.owner = t, !.pc[t] = "locked"]
    /\ UNCHANGED <<walkVars, poolVars, th, disk, sv, hist, tw, call, xp, io>>

\* the loop over self.accounts.values() with can_use
LkScan(t) ==
    /\ lk.pc[t] = "locked"
    /\ accounts' = AfterScan(accounts, now)
    /\ lk' = [lk EXCEPT !.pc[t] = "scanned", !.avail[t] = Available(accounts, now)]
    /\ UNCHANGED <<strategy, last_used_index, config, now, held, admin, gets, log, ret>>
    /\ UNCHANGED <<walkVars, th, disk, sv, hist, tw, call, xp, io>>

\* the selection, selected.use(), the return and the release of the lock
LkSelect(t) ==
    /\ lk.pc[t] = "scanned"
    /\ Select(lk.avail[t], accounts)
    /\ lk' = [lk EXCEPT !.pc[t] = "idle", !.got[t] = ret', !.at[t] = now,
                        !.owner = IF @ = t THEN "None" ELSE @]
    /\ UNCHANGED <<strategy, config, admin, now, gets>>
    /\ UNCHANGED <<walkVars, th, disk, sv, hist, tw, call, xp, io>>

LockNext ==
    \/ \E t \in Threads : LkCall(t)
    \/ \E t \in Threads : LkEnter(t)
    \/ \E t \in Threads : LkScan(t)
    \/ \E t \in Threads : LkSelect(t)
    \/ Tick

SpecLock == RetryInit /\ [][LockNext]_vars

\* C40: in a pool where every credential has min_interval > 0, two concurrent
\* get_available_account calls between which no time elapses never return the same
\* credential: the second call sees the last_use_time the first one stamped.
C40_ConcurrentGetsDistinct ==
    (\A i \in 1..Len(accounts) : accounts[i].min_interval > 0) =>
        \A t, u \in Threads :
            (t # u /\ lk.got[t] # "None" /\ lk.got[u] # "None" /\ lk.at[t] = lk.at[u])
                => lk.got[t] # lk.got[u]

\* both threads were handed a credential at the same instant, one each, and the one
\* that entered second was waiting for the lock meanwhile
C40_Witness ==
    /\ \A i \in 1..Len(accounts) : accounts[i].min_interval > 0
    /\ lk.got["t1"] # "None" /\ lk.got["t2"] # "None"
    /\ lk.at["t1"] = lk.at["t2"] /\ lk.at["t1"] = now
    /\ lk.calls["t1"] = 1 /\ lk.calls["t2"] = 1
    /\ \A i \in 1..Len(accounts) : accounts[i].last_use_time = now

============================================================================
